---- MODULE Spec2Model ----
(***************************************************************************)
(* A model of the vectorai in-memory vector database:                      *)
(*   app/core/indexing.py   the three index strategies                     *)
(*   app/core/database.py   ThreadSafeDatabase, the store                  *)
(*   app/services/document_service.py   the name checks of DocumentService *)
(*   app/services/search_service.py     SearchService and its filters      *)
(*   app/services/demo_service.py       the runs of DemoService            *)
(*                                                                         *)
(* Embeddings are vectors of integer-valued floats, so every comparison    *)
(* the code makes on floats is decided exactly.  A similarity score is     *)
(* kept as the fraction num/den = cos * |cos| (the squared cosine with the *)
(* sign of the cosine), which orders exactly as the cosine does.           *)
(*                                                                         *)
(* The specifications of the module:                                       *)
(*   SpecIdx   one index object driven through add_chunks/build/search     *)
(*   Spec      the store's public operations, one whole handler per step   *)
(*   SpecDisk  the store with a persistence path: two libraries, restarts  *)
(*   SpecIds   the store's creates and deletes with ids the caller chooses *)
(*   SpecSnap  the store with timestamps, written to and read from JSON    *)
(*   SpecConc  threads running store operations statement by statement     *)
(*             under the store's locks                                     *)
(*   SpecRW    threads reading and writing two libraries, with the         *)
(*             snapshot write of the writers                               *)
(*   SpecSvc   threads running DocumentService methods, one store call     *)
(*             per step                                                    *)
(*   SpecQuery the search service: filtered searches of one library and    *)
(*             searches across libraries                                   *)
(*   SpecDemo  demos started, run step by step, looked up and deleted      *)
(***************************************************************************)
EXTENDS Integers, Sequences, FiniteSets, TLC

VARIABLES
    ix,            \* SpecIdx: the index object under test
    out,           \* SpecIdx: the last call made on ix and what it returned
    data,          \* store: _data, library id -> Library
    indexes,       \* store: _indexes, library id -> index object
    snapshot,      \* store: content of the persistence file
    last,          \* store: the last public operation and its outcome
    persistence_path, \* store: whether a persistence path is configured
    removed,       \* store: ids of the chunks of documents delete_document removed
    next_id,       \* store: number of chunk ids handed out so far
    rw_lock,       \* threads: _rw_lock, a reentrant mutex [owner, count]
    index_lock,    \* threads: _index_locks["L1"], a reentrant mutex (SpecRW:
                   \* _index_locks, library id -> mutex)
    pc,            \* threads: thread -> position in its current operation
    frame,         \* threads: thread -> locals of its current operation
    calls,         \* threads: number of calls made so far
    history        \* SpecConc: writes in lock order, and what each search saw

idxVars   == <<ix, out>>
storeVars == <<data, indexes, snapshot, persistence_path, last, removed, next_id>>
concVars  == <<rw_lock, index_lock, pc, frame, calls, history>>
vars      == <<ix, out, data, indexes, snapshot, persistence_path,
               last, removed, next_id, rw_lock, index_lock, pc, frame, calls,
               history>>

-----------------------------------------------------------------------------
(* Bounds of the model *)

\* largest working set of the index under test in SpecIdx
MaxLen == 3
\* largest k a search is called with
MaxK == 2
\* chunk ids handed out in one run of the store
MaxIds == 2

\* embeddings of the chunks callers supply
Vectors == {<<1, 0>>, <<0, 1>>, <<0, 0>>}
\* embeddings of the chunks callers hand to the store; <<1>> is a chunk of
\* another dimension than the rest
StoreVectors == {<<0, 1>>, <<1>>}
LibIds == {"L1", "L2"}
DocIds == {"D1", "D2"}
\* query vectors; <<1>> has another dimension than every embedding above
Queries == {<<1, 0>>, <<0, 1>>, <<-1, 0>>, <<1>>}
\* the queries and the k store searches are called with: k = 1 cuts a result
\* short, k = MaxIds is at least the number of chunks a library can hold
StoreQueries == {<<1, 0>>, <<1>>}
StoreKs == {1, MaxIds}
\* outcomes of np.random.randn(dimension), by dimension
Planes(dim) == IF dim = 2 THEN {<<1, 0>>, <<1, -1>>} ELSE {<<1>>, <<-1>>}
\* (num_hashes, num_buckets) a caller builds an LSH index with
LSHParams == {<<2, 3>>}
\* the same for build_index
StoreLSHParams == {<<1, 2>>}
\* embeddings of the chunks handed to the store in SpecDisk
DiskVectors == {<<1, 0>>, <<1>>}
IndexTypes == {"linear", "kdtree", "lsh"}
TiePolicies == {"stable", "unstable"}

-----------------------------------------------------------------------------
(* Sequences and vectors *)

Abs(x) == IF x < 0 THEN -x ELSE x
Min(a, b) == IF a < b THEN a ELSE b

RECURSIVE SumTo(_, _)
SumTo(f, n) == IF n = 0 THEN 0 ELSE f[n] + SumTo(f, n - 1)

\* np.dot on two 1-d arrays of equal length
Dot(a, b) == SumTo([i \in 1..Len(a) |-> a[i] * b[i]], Len(a))

Range(s) == {s[i] : i \in 1..Len(s)}

RECURSIVE Flatten(_)
Flatten(ss) == IF ss = <<>> THEN <<>> ELSE Head(ss) \o Flatten(Tail(ss))

\* s without its i-th element
RemoveAt(s, i) == SubSeq(s, 1, i - 1) \o SubSeq(s, i + 1, Len(s))

\* the optional value None / a value
None == <<>>
Some(x) == <<x>>

-----------------------------------------------------------------------------
(* Scores *)

ZeroScore == [num |-> 0, den |-> 1]
ScoreLt(s, t) == s.num * t.den < t.num * s.den
ScoreEq(s, t) == s.num * t.den = t.num * s.den
ScoreLe(s, t) == s.num * t.den <= t.num * s.den

\* BaseIndex._cosine_similarity, on vectors of equal length
CosineSimilarity(vec1, vec2) ==
    LET d  == Dot(vec1, vec2)
        n1 == Dot(vec1, vec1)
        n2 == Dot(vec2, vec2)
    IN  IF n1 = 0 \/ n2 = 0 THEN ZeroScore
        ELSE [num |-> d * Abs(d), den |-> n1 * n2]

\* np.argsort(similarities): positions in ascending order of score.  The default
\* sort kind is not stable: equal keys come out in input order (ties = "stable",
\* what the insertion sort used on short arrays gives) or not (the partitioning
\* used on long ones), so each call is given the order it meets.
ArgSort(sims, ties) ==
    LET n == Len(sims)
        Before(j, i) ==
            \/ ScoreLt(sims[j], sims[i])
            \/ /\ ScoreEq(sims[j], sims[i])
               /\ IF ties = "stable" THEN j < i ELSE j > i
        Rank(i) == Cardinality({j \in 1..n : Before(j, i)})
    IN  [r \in 1..n |-> CHOOSE i \in 1..n : Rank(i) = r - 1]

\* TopK without the [::-1]: the k lowest scores, ascending
TopKAscending(sims, k, ties) ==
    LET p == ArgSort(sims, ties)
    IN  [r \in 1..Min(k, Len(sims)) |-> p[r]]

\* np.argsort(similarities)[::-1][:k]
TopK(sims, k, ties) ==
    LET p == ArgSort(sims, ties)
        n == Len(sims)
    IN  [r \in 1..Min(k, n) |-> p[n + 1 - r]]

\* what a search hands back: it raised, or a chunk list and a score list
Raised(what) == [raised |-> TRUE, error |-> what, chunks |-> <<>>, scores |-> <<>>]
Returned(cs, ss) == [raised |-> FALSE, error |-> "", chunks |-> cs, scores |-> ss]

-----------------------------------------------------------------------------
(* The index object: BaseIndex and its three subclasses.  self.embeddings is   *)
(* kept in step with self.chunks by every writer, so it is read off chunks.    *)

Chunk(id, embedding) == [id |-> id, embedding |-> embedding]

\* IndexFactory.create_index: a fresh, unbuilt index
create_index(index_type, num_hashes, num_buckets) ==
    [type          |-> index_type,
     chunks        |-> <<>>,
     is_built      |-> FALSE,
     tree          |-> None,
     dimension     |-> 0,
     num_hashes    |-> IF index_type = "lsh" THEN num_hashes ELSE 0,
     num_buckets   |-> IF index_type = "lsh" THEN num_buckets ELSE 0,
     hash_tables   |-> <<>>,
     random_planes |-> <<>>]

Embeddings(index) == [i \in 1..Len(index.chunks) |-> index.chunks[i].embedding]

\* BaseIndex.add_chunks
add_chunks(index, chunks) == [index EXCEPT !.chunks = @ \o chunks]

\* the store's "index.chunks = []; index.embeddings = []"
reset_chunks(index) == [index EXCEPT !.chunks = <<>>]

(* ---- LinearSearchIndex ---- *)

LinearBuild(index) == [index |-> [index EXCEPT !.is_built = TRUE], raised |-> FALSE]

\* LinearSearch taking the first k chunks of the working set instead of the
\* k best
LinearSearchFirstK(index, query_vec, k, ties) ==
    LET embeddings == Embeddings(index)
        n == Len(embeddings)
    IN  IF ~index.is_built THEN Raised("Index not built")
        ELSE IF \E i \in 1..n : Len(embeddings[i]) # Len(query_vec)
        THEN Raised("shapes not aligned")
        ELSE Returned([r \in 1..Min(k, n) |-> index.chunks[r]],
                      [r \in 1..Min(k, n) |-> CosineSimilarity(query_vec, embeddings[r])])

LinearSearch(index, query_vec, k, ties) ==
    LET embeddings == Embeddings(index)
        n == Len(embeddings)
    IN  IF ~index.is_built THEN Raised("Index not built")
        ELSE IF \E i \in 1..n : Len(embeddings[i]) # Len(query_vec)
        THEN Raised("shapes not aligned")
        ELSE LET similarities == [i \in 1..n |-> CosineSimilarity(query_vec, embeddings[i])]
                 indices == TopK(similarities, k, ties)
             IN  Returned([r \in 1..Len(indices) |-> index.chunks[indices[r]]],
                          [r \in 1..Len(indices) |-> similarities[indices[r]]])

(* ---- KDTreeIndex ---- *)

\* KDTreeIndex._find_embedding_index: the first position holding an equal
\* embedding, position 1 (Python's 0) when there is none
FindEmbeddingIndex(embeddings, target) ==
    LET hits == {i \in 1..Len(embeddings) : embeddings[i] = target}
    IN  IF hits = {} THEN 1 ELSE CHOOSE i \in hits : \A j \in hits : i <= j

\* sorted(embeddings, key=lambda x: x[axis]): Python's sort is stable
SortByAxis(embeddings, axis) ==
    LET n == Len(embeddings)
        Before(j, i) == \/ embeddings[j][axis] < embeddings[i][axis]
                        \/ embeddings[j][axis] = embeddings[i][axis] /\ j < i
        Rank(i) == Cardinality({j \in 1..n : Before(j, i)})
    IN  [r \in 1..n |-> embeddings[CHOOSE i \in 1..n : Rank(i) = r - 1]]

\* KDTreeIndex._build_tree raises IndexError: the sort key reads x[axis] of an
\* embedding shorter than the axis
RECURSIVE BuildTreeRaises(_, _, _)
BuildTreeRaises(embeddings, depth, dimension) ==
    /\ Len(embeddings) >= 2
    /\ LET axis == (depth % dimension) + 1
       IN  \/ \E i \in 1..Len(embeddings) : Len(embeddings[i]) < axis
           \/ LET sorted == SortByAxis(embeddings, axis)
                  median_idx == Len(sorted) \div 2
              IN  \/ BuildTreeRaises(SubSeq(sorted, 1, median_idx), depth + 1, dimension)
                  \/ BuildTreeRaises(SubSeq(sorted, median_idx + 2, Len(sorted)),
                                     depth + 1, dimension)

\* KDTreeIndex._build_tree, where it does not raise; all is self.embeddings
RECURSIVE BuildTree(_, _, _, _)
BuildTree(all, embeddings, depth, dimension) ==
    IF embeddings = <<>> THEN None
    ELSE IF Len(embeddings) = 1
    THEN Some([point |-> embeddings[1], left |-> None, right |-> None,
               chunk_index |-> FindEmbeddingIndex(all, embeddings[1])])
    ELSE LET axis == (depth % dimension) + 1
             sorted == SortByAxis(embeddings, axis)
             median_idx == Len(sorted) \div 2
         IN  Some([point |-> sorted[median_idx + 1],
                   left  |-> BuildTree(all, SubSeq(sorted, 1, median_idx),
                                       depth + 1, dimension),
                   right |-> BuildTree(all, SubSeq(sorted, median_idx + 2, Len(sorted)),
                                       depth + 1, dimension),
                   chunk_index |-> FindEmbeddingIndex(all, sorted[median_idx + 1])])

KDBuild(index) ==
    LET embeddings == Embeddings(index)
    IN  IF embeddings = <<>>
        THEN [index |-> [index EXCEPT !.is_built = TRUE], raised |-> FALSE]
        ELSE LET dimension == Len(embeddings[1])
             IN  IF BuildTreeRaises(embeddings, 0, dimension)
                 THEN [index |-> [index EXCEPT !.dimension = dimension], raised |-> TRUE]
                 ELSE [index |-> [index EXCEPT !.dimension = dimension,
                                               !.tree = BuildTree(embeddings, embeddings,
                                                                  0, dimension),
                                               !.is_built = TRUE],
                       raised |-> FALSE]

\* KDTreeIndex._search_recursive: the nodes appended to candidates, in order
RECURSIVE SearchRecursive(_, _, _, _)
SearchRecursive(node, query_vec, depth, dimension) ==
    IF node = None THEN [raised |-> FALSE, candidates |-> <<>>]
    ELSE LET n == node[1]
             axis == (depth % dimension) + 1
         IN  IF axis > Len(query_vec) \/ axis > Len(n.point)
             THEN [raised |-> TRUE, candidates |-> <<>>]
             ELSE LET toLeft == query_vec[axis] < n.point[axis]
                      first  == IF toLeft THEN n.left ELSE n.right
                      second == IF toLeft THEN n.right ELSE n.left
                      distance_to_plane == Abs(query_vec[axis] - n.point[axis])
                      r1 == SearchRecursive(first, query_vec, depth + 1, dimension)
                      r2 == IF second # None /\ 10 * distance_to_plane < 1
                            THEN SearchRecursive(second, query_vec, depth + 1, dimension)
                            ELSE [raised |-> FALSE, candidates |-> <<>>]
                  IN  IF r1.raised \/ r2.raised
                      THEN [raised |-> TRUE, candidates |-> <<>>]
                      ELSE [raised |-> FALSE,
                            candidates |-> <<n>> \o r1.candidates \o r2.candidates]

KDSearch(index, query_vec, k, ties) ==
    IF ~index.is_built THEN Raised("Index not built")
    ELSE LET walk == SearchRecursive(index.tree, query_vec, 0, index.dimension)
             candidates == walk.candidates
             n == Len(candidates)
         IN  IF walk.raised THEN Raised("index out of range")
             ELSE IF \E i \in 1..n : Len(candidates[i].point) # Len(query_vec)
             THEN Raised("shapes not aligned")
             ELSE LET similarities ==
                          [i \in 1..n |-> CosineSimilarity(query_vec, candidates[i].point)]
                      sorted_indices == TopK(similarities, k, ties)
                  IN  IF \E r \in 1..Len(sorted_indices) :
                             candidates[sorted_indices[r]].chunk_index > Len(index.chunks)
                      THEN Raised("index out of range")
                      ELSE Returned(
                             [r \in 1..Len(sorted_indices) |->
                                 index.chunks[candidates[sorted_indices[r]].chunk_index]],
                             [r \in 1..Len(sorted_indices) |->
                                 similarities[sorted_indices[r]]])

(* ---- LSHIndex ---- *)

\* hash() of a Python float with an integral value: the value itself, except
\* that -1 is reserved and hashes to -2
HashFloat(x) == IF x = -1 THEN -2 ELSE x

\* LSHIndex._hash_vector, on a vector and a plane of equal length
HashVector(vector, plane, num_buckets) == HashFloat(Dot(vector, plane)) % num_buckets

\* the members of a set of numbers, ascending
Ascending(S) ==
    [r \in 1..Cardinality(S) |-> CHOOSE x \in S : Cardinality({y \in S : y < x}) = r - 1]

\* sequences of num_hashes planes np.random.randn can produce
PlaneSeqs(dimension, num_hashes) == [1..num_hashes -> Planes(dimension)]

\* LSHIndex.build, with random_planes the hyperplanes it samples.  Hashing the
\* first embedding whose length differs from the planes' raises, after the
\* planes and the tables of the embeddings before it have been replaced.
LSHBuild(index, random_planes) ==
    LET embeddings == Embeddings(index)
        n == Len(embeddings)
    IN  IF embeddings = <<>>
        THEN [index |-> [index EXCEPT !.is_built = TRUE], raised |-> FALSE]
        ELSE LET dimension == Len(embeddings[1])
                 bad == {i \in 1..n : Len(embeddings[i]) # dimension}
                 hashed == IF bad = {} THEN n
                           ELSE (CHOOSE i \in bad : \A j \in bad : i <= j) - 1
                 Bucket(j, b) ==
                     SelectSeq([i \in 1..hashed |-> i],
                               LAMBDA i : HashVector(embeddings[i], random_planes[j],
                                                     index.num_buckets) = b)
                 hash_tables == [j \in 1..index.num_hashes |->
                                    [b \in 0..(index.num_buckets - 1) |-> Bucket(j, b)]]
             IN  [index |-> [index EXCEPT !.random_planes = random_planes,
                                          !.hash_tables = hash_tables,
                                          !.is_built = (bad = {}) \/ @],
                  raised |-> bad # {}]

LSHSearch(index, query_vec, k, ties) ==
    LET planes == index.random_planes
    IN  IF ~index.is_built THEN Raised("Index not built")
        ELSE IF \E i \in 1..Len(planes) : Len(planes[i]) # Len(query_vec)
        THEN Raised("shapes not aligned")
        ELSE LET candidate_indices ==
                     UNION {Range(index.hash_tables[i][HashVector(query_vec, planes[i],
                                                                   index.num_buckets)])
                            : i \in 1..Len(planes)}
                 candidates == Ascending(candidate_indices)
                 n == Len(candidates)
             IN  IF \E i \in 1..n : candidates[i] > Len(index.chunks)
                 THEN Raised("index out of range")
                 ELSE IF \E i \in 1..n :
                            Len(index.chunks[candidates[i]].embedding) # Len(query_vec)
                 THEN Raised("shapes not aligned")
                 ELSE LET similarities ==
                              [i \in 1..n |->
                                  CosineSimilarity(query_vec,
                                                   index.chunks[candidates[i]].embedding)]
                          sorted_indices == TopK(similarities, k, ties)
                      IN  Returned(
                            [r \in 1..Len(sorted_indices) |->
                                index.chunks[candidates[sorted_indices[r]]]],
                            [r \in 1..Len(sorted_indices) |->
                                similarities[sorted_indices[r]]])

(* ---- the index contract ---- *)

\* the hyperplanes a build() of this index can sample (none unless LSH samples)
SampledPlanes(index) ==
    IF index.type = "lsh" /\ index.chunks # <<>>
    THEN PlaneSeqs(Len(index.chunks[1].embedding), index.num_hashes)
    ELSE {<<>>}

\* index.build(): the index afterwards, and whether the call raised
build(index, random_planes) ==
    CASE index.type = "linear" -> LinearBuild(index)
      [] index.type = "kdtree" -> KDBuild(index)
      [] index.type = "lsh"    -> LSHBuild(index, random_planes)

\* search without the "if not self.is_built: raise ValueError"
SearchUnguarded(index, query_embedding, k, ties) ==
    LET built == [index EXCEPT !.is_built = TRUE]
    IN  CASE index.type = "linear" -> LinearSearch(built, query_embedding, k, ties)
          [] index.type = "kdtree" -> KDSearch(built, query_embedding, k, ties)
          [] index.type = "lsh"    -> LSHSearch(built, query_embedding, k, ties)

\* index.search(query_embedding, k)
search(index, query_embedding, k, ties) ==
    CASE index.type = "linear" -> LinearSearch(index, query_embedding, k, ties)
      [] index.type = "kdtree" -> KDSearch(index, query_embedding, k, ties)
      [] index.type = "lsh"    -> LSHSearch(index, query_embedding, k, ties)

-----------------------------------------------------------------------------
(* SpecIdx: one index object, driven through its contract *)

NoCall == [op |-> "none", query |-> <<>>, k |-> 0, result |-> Returned(<<>>, <<>>)]

\* the variables a specification does not use stay at these values
IdleIdx   == ix = create_index("linear", 0, 0) /\ out = NoCall
IdleStore == /\ data = <<>> /\ indexes = <<>> /\ snapshot = <<>>
             /\ persistence_path = FALSE
             /\ last = NoCall /\ removed = {} /\ next_id = 0
IdleConc  == /\ rw_lock = <<>> /\ index_lock = <<>> /\ pc = <<>>
             /\ frame = <<>> /\ calls = 0 /\ history = <<>>

InitIdx ==
    /\ ix \in {create_index("linear", 0, 0), create_index("kdtree", 0, 0)}
              \cup {create_index("lsh", p[1], p[2]) : p \in LSHParams}
    /\ out = NoCall
    /\ IdleStore
    /\ IdleConc

\* index.add_chunks([chunk]) with a chunk the caller has just made
IdxAddChunks ==
    /\ Len(ix.chunks) < MaxLen
    /\ \E e \in Vectors :
          ix' = add_chunks(ix, <<Chunk(Len(ix.chunks) + 1, e)>>)
    /\ out' = [NoCall EXCEPT !.op = "add_chunks"]
    /\ UNCHANGED <<storeVars, concVars>>

\* index.build()
IdxBuild ==
    /\ \E planes \in SampledPlanes(ix) : ix' = build(ix, planes).index
    /\ out' = [NoCall EXCEPT !.op = "build"]
    /\ UNCHANGED <<storeVars, concVars>>

\* index.search(q, k)
IdxSearch ==
    /\ \E q \in Queries, k \in 1..MaxK, ties \in TiePolicies :
          out' = [op |-> "search", query |-> q, k |-> k,
                  result |-> search(ix, q, k, ties)]
    /\ UNCHANGED <<ix, storeVars, concVars>>

NextIdx == IdxAddChunks \/ IdxBuild \/ IdxSearch

SpecIdx == InitIdx /\ [][NextIdx]_vars

-----------------------------------------------------------------------------
(* The store: ThreadSafeDatabase.  In Spec every public operation is one step; *)
(* the locks it takes are modelled in SpecConc.  Spec runs without a           *)
(* persistence path, SpecDisk with one.                                        *)

\* dictionaries
EmptyDict == [x \in {} |-> x]
Put(dict, key, value) ==
    [x \in DOMAIN dict \cup {key} |-> IF x = key THEN value ELSE dict[x]]
Del(dict, key) == [x \in DOMAIN dict \ {key} |-> dict[x]]

Library(documents) == [documents |-> documents]
Document(id, chunks) == [id |-> id, chunks |-> chunks]

\* every chunk of every document of a library, in order
AllChunks(library) ==
    Flatten([i \in 1..Len(library.documents) |-> library.documents[i].chunks])

ChunkIds(chunks) == {chunks[i].id : i \in 1..Len(chunks)}

\* position of the first document with this id, 0 when there is none
DocPos(library, document_id) ==
    LET hits == {i \in 1..Len(library.documents) : library.documents[i].id = document_id}
    IN  IF hits = {} THEN 0 ELSE CHOOSE i \in hits : \A j \in hits : i <= j

\* lists of n chunks a caller has just made: fresh ids, any embeddings
NewChunks(n, vectors) ==
    {[i \in 1..n |-> Chunk(next_id + i, es[i])] : es \in [1..n -> vectors]}
\* the lists of least..most chunks the store still has ids for
NewChunkLists(least, most, vectors) ==
    UNION {NewChunks(n, vectors) : n \in least..Min(most, MaxIds - next_id)}

\* ids of the documents now in the store
DocsInUse == UNION {{data[l].documents[i].id : i \in 1..Len(data[l].documents)}
                    : l \in DOMAIN data}

\* the id a new Document gets (uuid4): one no document of the store has
NewDocId == CHOOSE d \in DocIds \ DocsInUse : TRUE

\* what a call did: its return value, or that it raised.  after is, for a
\* search, the ids a successful add_chunks_to_document on the library appended
\* with no other mutation of the store since.
Outcome(op, lib, ret, raised) ==
    [op |-> op, lib |-> lib, ret |-> ret, raised |-> raised,
     chunks |-> <<>>, query |-> <<>>, k |-> 0, result |-> Returned(<<>>, <<>>),
     after |-> {}]

\* _persist_to_disk: the file's content afterwards
Persist(d) == IF persistence_path THEN d ELSE snapshot

\* AddAndBuild without the index.add_chunks(chunks)
BuildOnly(index, chunks, random_planes) == build(index, random_planes)

\* Rebuild without emptying and refilling the working set
BuildStale(index, library, random_planes) == build(index, random_planes)

\* "index.add_chunks(chunks); index.build()" of create_document and
\* add_chunks_to_document
AddAndBuild(index, chunks, random_planes) == build(add_chunks(index, chunks), random_planes)

\* Rebuild without emptying the working set first
RebuildAppending(index, library, random_planes) ==
    build(add_chunks(index, AllChunks(library)), random_planes)

\* the rebuild of update_document and delete_document: empty the working set,
\* add every document's chunks, build
Rebuild(index, library, random_planes) ==
    build(add_chunks(reset_chunks(index), AllChunks(library)), random_planes)

InitStore(persist) ==
    /\ data = EmptyDict
    /\ indexes = EmptyDict
    /\ snapshot = EmptyDict
    /\ persistence_path = persist
    /\ last = Outcome("init", "", "None", FALSE)
    /\ removed = {}
    /\ next_id = 0
    /\ IdleIdx
    /\ IdleConc

\* create_library(library), library a new Library without documents
CreateLibrary(l) ==
    /\ IF l \in DOMAIN data
       THEN /\ last' = Outcome("create_library", l, "None", TRUE)
            /\ UNCHANGED <<data, indexes, snapshot>>
       ELSE /\ indexes' = Put(indexes, l, create_index("linear", 0, 0))
            /\ data' = Put(data, l, Library(<<>>))
            /\ snapshot' = Persist(data')
            /\ last' = Outcome("create_library", l, "library", FALSE)
    /\ UNCHANGED <<persistence_path, removed, next_id, idxVars, concVars>>

\* delete_library without the "del self._indexes[library_id]"
DeleteLibraryKeepIndex(l) ==
    /\ IF l \notin DOMAIN data
       THEN /\ last' = Outcome("delete_library", l, "False", FALSE)
            /\ UNCHANGED <<data, indexes, snapshot>>
       ELSE /\ data' = Del(data, l)
            /\ snapshot' = Persist(data')
            /\ last' = Outcome("delete_library", l, "True", FALSE)
            /\ UNCHANGED indexes
    /\ UNCHANGED <<persistence_path, removed, next_id, idxVars, concVars>>

\* delete_library(library_id)
DeleteLibrary(l) ==
    /\ IF l \notin DOMAIN data
       THEN /\ last' = Outcome("delete_library", l, "False", FALSE)
            /\ UNCHANGED <<data, indexes, snapshot>>
       ELSE /\ data' = Del(data, l)
            /\ indexes' = Del(indexes, l)
            /\ snapshot' = Persist(data')
            /\ last' = Outcome("delete_library", l, "True", FALSE)
    /\ UNCHANGED <<persistence_path, removed, next_id, idxVars, concVars>>

\* create_document(library_id, document)
CreateDocument(l, d, chunks) ==
    /\ IF l \notin DOMAIN data
       THEN /\ last' = Outcome("create_document", l, "None", FALSE)
            /\ UNCHANGED <<data, indexes, snapshot, next_id>>
       ELSE /\ data' = [data EXCEPT ![l].documents = Append(@, Document(d, chunks))]
            /\ next_id' = next_id + Len(chunks)
            /\ IF l \in DOMAIN indexes
               THEN \E planes \in SampledPlanes(add_chunks(indexes[l], chunks)) :
                      LET b == AddAndBuild(indexes[l], chunks, planes)
                      IN  /\ indexes' = [indexes EXCEPT ![l] = b.index]
                          /\ snapshot' = IF b.raised THEN snapshot ELSE Persist(data')
                          /\ last' = Outcome("create_document", l, "document", b.raised)
               ELSE /\ snapshot' = Persist(data')
                    /\ last' = Outcome("create_document", l, "document", FALSE)
                    /\ UNCHANGED indexes
    /\ UNCHANGED <<persistence_path, removed, idxVars, concVars>>

\* update_document(library_id, document_id, updates): updates holds "chunks"
\* (with_chunks) or only a name or metadata
UpdateDocument(l, d, with_chunks, chunks) ==
    /\ IF l \notin DOMAIN data \/ DocPos(data[l], d) = 0
       THEN /\ last' = Outcome("update_document", l, "None", FALSE)
            /\ UNCHANGED <<data, indexes, snapshot, next_id>>
       ELSE LET i == DocPos(data[l], d)
            IN  IF with_chunks
                THEN /\ data' = [data EXCEPT ![l].documents[i].chunks = chunks]
                     /\ next_id' = next_id + Len(chunks)
                     /\ \E planes \in SampledPlanes(
                               add_chunks(reset_chunks(indexes[l]), AllChunks(data'[l]))) :
                           LET b == Rebuild(indexes[l], data'[l], planes)
                           IN  /\ indexes' = [indexes EXCEPT ![l] = b.index]
                               /\ snapshot' = IF b.raised THEN snapshot ELSE Persist(data')
                               /\ last' = Outcome("update_document", l,
                                                  "document", b.raised)
                ELSE /\ snapshot' = Persist(data)
                     /\ last' = Outcome("update_document", l, "document", FALSE)
                     /\ UNCHANGED <<data, indexes, next_id>>
    /\ UNCHANGED <<persistence_path, removed, idxVars, concVars>>

\* delete_document(library_id, document_id)
DeleteDocument(l, d) ==
    /\ IF l \notin DOMAIN data \/ DocPos(data[l], d) = 0
       THEN /\ last' = Outcome("delete_document", l, "False", FALSE)
            /\ UNCHANGED <<data, indexes, snapshot, removed>>
       ELSE LET i == DocPos(data[l], d)
                gone == ChunkIds(data[l].documents[i].chunks)
            IN  /\ data' = [data EXCEPT ![l].documents = RemoveAt(@, i)]
                /\ IF l \in DOMAIN indexes
                   THEN \E planes \in SampledPlanes(
                                  add_chunks(reset_chunks(indexes[l]), AllChunks(data'[l]))) :
                          LET b == Rebuild(indexes[l], data'[l], planes)
                          IN  /\ indexes' = [indexes EXCEPT ![l] = b.index]
                              /\ snapshot' = IF b.raised THEN snapshot ELSE Persist(data')
                              /\ last' = Outcome("delete_document", l, "True", b.raised)
                              /\ removed' = IF b.raised THEN removed ELSE removed \cup gone
                   ELSE /\ snapshot' = Persist(data')
                        /\ last' = Outcome("delete_document", l, "True", FALSE)
                        /\ removed' = removed \cup gone
                        /\ UNCHANGED indexes
    /\ UNCHANGED <<persistence_path, next_id, idxVars, concVars>>

\* add_chunks_to_document(library_id, document_id, chunks)
AddChunksToDocument(l, d, chunks) ==
    /\ IF l \notin DOMAIN data \/ DocPos(data[l], d) = 0
       THEN /\ last' = Outcome("add_chunks_to_document", l, "False", FALSE)
            /\ UNCHANGED <<data, indexes, snapshot, next_id>>
       ELSE LET i == DocPos(data[l], d)
            IN  /\ data' = [data EXCEPT ![l].documents[i].chunks = @ \o chunks]
                /\ next_id' = next_id + Len(chunks)
                /\ IF l \in DOMAIN indexes
                   THEN \E planes \in SampledPlanes(add_chunks(indexes[l], chunks)) :
                          LET b == AddAndBuild(indexes[l], chunks, planes)
                          IN  /\ indexes' = [indexes EXCEPT ![l] = b.index]
                              /\ snapshot' = IF b.raised THEN snapshot ELSE Persist(data')
                              /\ last' = [Outcome("add_chunks_to_document", l,
                                                  "True", b.raised)
                                             EXCEPT !.chunks = chunks]
                   ELSE /\ snapshot' = Persist(data')
                        /\ last' = [Outcome("add_chunks_to_document", l, "True", FALSE)
                                       EXCEPT !.chunks = chunks]
                        /\ UNCHANGED indexes
    /\ UNCHANGED <<persistence_path, removed, idxVars, concVars>>

\* BuildIndex without "if library_id not in self._data: return False": the
\* lookup self._data[library_id] raises KeyError for an unknown library
BuildIndexUnchecked(l, index_type, params) ==
    /\ IF l \notin DOMAIN data
       THEN /\ last' = Outcome("build_index", l, "None", TRUE)
            /\ UNCHANGED <<indexes, snapshot>>
       ELSE LET index == add_chunks(create_index(index_type, params[1], params[2]),
                                    AllChunks(data[l]))
            IN  \E planes \in SampledPlanes(index) :
                  LET b == build(index, planes)
                  IN  /\ indexes' = IF b.raised THEN indexes
                                    ELSE [indexes EXCEPT ![l] = b.index]
                      /\ snapshot' = IF b.raised THEN snapshot ELSE Persist(data)
                      /\ last' = Outcome("build_index", l, "True", b.raised)
    /\ UNCHANGED <<persistence_path, data, removed, next_id, idxVars,
                   concVars>>

\* build_index(library_id, index_type, **kwargs)
BuildIndex(l, index_type, params) ==
    /\ IF l \notin DOMAIN data
       THEN /\ last' = Outcome("build_index", l, "False", FALSE)
            /\ UNCHANGED <<indexes, snapshot>>
       ELSE LET index == add_chunks(create_index(index_type, params[1], params[2]),
                                    AllChunks(data[l]))
            IN  \E planes \in SampledPlanes(index) :
                  LET b == build(index, planes)
                  IN  /\ indexes' = IF b.raised THEN indexes
                                    ELSE [indexes EXCEPT ![l] = b.index]
                      /\ snapshot' = IF b.raised THEN snapshot ELSE Persist(data)
                      /\ last' = Outcome("build_index", l, "True", b.raised)
    /\ UNCHANGED <<persistence_path, data, removed, next_id, idxVars,
                   concVars>>

\* the chunks the call before this search appended, when that call was an
\* add_chunks_to_document on the library that returned True (or a search that
\* followed one)
JustAppended(l) ==
    IF last.lib = l /\ ~last.raised /\ last.op = "add_chunks_to_document"
       /\ last.ret = "True"
    THEN ChunkIds(last.chunks)
    ELSE IF last.lib = l /\ last.op = "search" THEN last.after
    ELSE {}

\* search(library_id, query_embedding, k)
Search(l, q, k, ties) ==
    /\ LET result == IF l \notin DOMAIN indexes THEN Returned(<<>>, <<>>)
                     ELSE search(indexes[l], q, k, ties)
       IN  last' = [Outcome("search", l, "result", result.raised) EXCEPT
                       !.query = q, !.k = k, !.result = result,
                       !.after = JustAppended(l)]
    /\ UNCHANGED <<persistence_path, data, indexes, snapshot, removed,
                   next_id, idxVars, concVars>>

\* LoadedIndex without the index.build()
LoadedUnbuilt(library) == add_chunks(create_index("linear", 0, 0), AllChunks(library))

\* the index _load_from_disk gives a library: linear, all chunks added, built
LoadedIndex(library) ==
    build(add_chunks(create_index("linear", 0, 0), AllChunks(library)), <<>>).index

\* the process ends and a new ThreadSafeDatabase is constructed on the same
\* persistence path: __init__ and _load_from_disk
Restart ==
    /\ persistence_path
    /\ data' = snapshot
    /\ indexes' = [l \in DOMAIN snapshot |-> LoadedIndex(snapshot[l])]
    /\ last' = Outcome("load", "", "None", FALSE)
    /\ UNCHANGED <<persistence_path, snapshot, removed, next_id, idxVars,
                   concVars>>

(* Spec: a store without persistence, holding the library L1 *)

Init == InitStore(FALSE)

Next ==
    \/ CreateLibrary("L1")
    \/ DeleteLibrary("L1")
    \/ \E chunks \in NewChunkLists(0, 1, StoreVectors) :
          DocIds # DocsInUse /\ CreateDocument("L1", NewDocId, chunks)
    \/ \E d \in DocIds, chunks \in NewChunkLists(0, 1, StoreVectors) :
          UpdateDocument("L1", d, TRUE, chunks)
    \/ \E d \in DocIds : UpdateDocument("L1", d, FALSE, <<>>)
    \/ \E d \in DocIds : DeleteDocument("L1", d)
    \/ \E d \in DocIds, chunks \in NewChunkLists(1, 2, StoreVectors) :
          AddChunksToDocument("L1", d, chunks)
    \/ \E t \in {"linear", "kdtree"} : BuildIndex("L1", t, <<0, 0>>)
    \/ \E p \in StoreLSHParams : BuildIndex("L1", "lsh", p)
    \/ \E q \in StoreQueries, k \in StoreKs, ties \in TiePolicies :
          Search("L1", q, k, ties)

Spec == Init /\ [][Next]_vars

(* SpecDisk: a store with a persistence path, holding up to two libraries  *)
(* and one document at a time, and restarted from its file at any time     *)

InitDisk == InitStore(TRUE)

NextDisk ==
    \/ \E l \in LibIds : CreateLibrary(l)
    \/ \E l \in LibIds : DeleteLibrary(l)
    \/ \E l \in LibIds, chunks \in NewChunkLists(0, 2, DiskVectors) :
          DocsInUse = {} /\ CreateDocument(l, NewDocId, chunks)
    \/ \E l \in LibIds, d \in DocIds : DeleteDocument(l, d)
    \/ \E l \in LibIds : BuildIndex(l, "linear", <<0, 0>>)
    \/ \E l \in LibIds, p \in StoreLSHParams : BuildIndex(l, "lsh", p)
    \/ Restart

SpecDisk == InitDisk /\ [][NextDisk]_vars

-----------------------------------------------------------------------------
(* SpecConc: threads calling add_chunks_to_document, delete_document,        *)
(* build_index and search on the library L1, one statement of the handler    *)
(* per step, under the store's _rw_lock and the library's index lock.        *)

Threads == {"t1", "t2"}
\* calls the threads make in one run
MaxCalls == 3
\* embeddings of the chunks the threads append
ConcVectors == {<<0, 1>>, <<1>>}
\* the query and the k the threads search with
ConcQueries == {<<1, 0>>}
ConcKs == {MaxIds + 1}

\* threading.RLock: the owning thread and its recursion level
Free == [owner |-> "", count |-> 0]

\* an RLock.acquire() that never blocks
AlwaysFree(lock, t) == TRUE

\* RLock.acquire() returns only when no other thread owns the lock
CanAcquire(lock, t) == lock.owner \in {"", t}
Acquired(lock, t) == [owner |-> t, count |-> lock.count + 1]
\* RLock.release()
Released(lock) == IF lock.count <= 1 THEN Free ELSE [lock EXCEPT !.count = @ - 1]

\* the locals of a thread outside a call.  before, open and at are what a search
\* knows of history: the writes that had returned and those still running when
\* it was called, and the number of writes that had the store lock before it.
NoFrame ==
    [op |-> "none", doc |-> "", chunks |-> <<>>, todo |-> <<>>, query |-> <<>>,
     k |-> 0, raised |-> FALSE, ret |-> "None",
     result |-> Returned(<<>>, <<>>), computed |-> FALSE, seen |-> <<>>,
     seen_built |-> FALSE, before |-> {}, open |-> {}, at |-> 0, entry |-> 0]

\* the library the threads work on: one document holding one chunk, made
\* before the run hands out its chunk ids
ConcLibrary == Library(<<Document("D1", <<Chunk(0, <<1, 0>>)>>)>>)

\* its index: the linear one of create_library, built by create_document
ConcIndex ==
    build(add_chunks(create_index("linear", 0, 0), AllChunks(ConcLibrary)), <<>>).index

InitConc ==
    /\ data = Put(EmptyDict, "L1", ConcLibrary)
    /\ indexes = Put(EmptyDict, "L1", ConcIndex)
    /\ snapshot = EmptyDict
    /\ persistence_path = FALSE
    /\ last = Outcome("init", "", "None", FALSE)
    /\ removed = {}
    /\ next_id = 0
    /\ rw_lock = Free
    /\ index_lock = Free
    /\ pc = [t \in Threads |-> "idle"]
    /\ frame = [t \in Threads |-> NoFrame]
    /\ calls = 0
    /\ history = <<>>
    /\ IdleIdx

\* a thread calls an operation; the chunks of an add are made by the caller
Call(t, op, d, chunks, q, k) ==
    /\ pc[t] = "idle"
    /\ calls < MaxCalls
    /\ calls' = calls + 1
    /\ frame' = [frame EXCEPT ![t] =
                    [NoFrame EXCEPT !.op = op, !.doc = d, !.chunks = chunks,
                                    !.query = q, !.k = k,
                                    !.before = {i \in 1..Len(history) : history[i].returned},
                                    !.open = {i \in 1..Len(history) : ~history[i].returned}]]
    /\ next_id' = next_id + Len(chunks)
    /\ pc' = [pc EXCEPT ![t] = "acquire_rw"]
    /\ UNCHANGED <<data, indexes, snapshot, persistence_path, last, removed,
                   rw_lock, index_lock, history, idxVars>>

\* AcquireRW going on without waiting for the lock to be free
AcquireRWUnlocked(t) ==
    /\ pc[t] = "acquire_rw"
    /\ rw_lock' = Acquired(rw_lock, t)
    /\ IF frame[t].op = "search"
       THEN /\ frame' = [frame EXCEPT ![t].at = Len(history)]
            /\ UNCHANGED history
       ELSE /\ history' = Append(history,
                                 [t |-> t, op |-> frame[t].op, doc |-> frame[t].doc,
                                  ids |-> [i \in 1..Len(frame[t].chunks) |->
                                              frame[t].chunks[i].id],
                                  returned |-> FALSE, raised |-> FALSE, ret |-> "None"])
            /\ frame' = [frame EXCEPT ![t].entry = Len(history) + 1]
    /\ pc' = [pc EXCEPT ![t] = "find"]
    /\ UNCHANGED <<data, indexes, snapshot, persistence_path, last, removed, next_id,
                   index_lock, calls, idxVars>>

\* _acquire_write_lock / _acquire_read_lock: the same RLock.  A write takes
\* its place in history when it gets the lock.
AcquireRW(t) ==
    /\ pc[t] = "acquire_rw"
    /\ CanAcquire(rw_lock, t)
    /\ rw_lock' = Acquired(rw_lock, t)
    /\ IF frame[t].op = "search"
       THEN /\ frame' = [frame EXCEPT ![t].at = Len(history)]
            /\ UNCHANGED history
       ELSE /\ history' = Append(history,
                                 [t |-> t, op |-> frame[t].op, doc |-> frame[t].doc,
                                  ids |-> [i \in 1..Len(frame[t].chunks) |->
                                              frame[t].chunks[i].id],
                                  returned |-> FALSE, raised |-> FALSE, ret |-> "None"])
            /\ frame' = [frame EXCEPT ![t].entry = Len(history) + 1]
    /\ pc' = [pc EXCEPT ![t] = "find"]
    /\ UNCHANGED <<data, indexes, snapshot, persistence_path, last, removed, next_id,
                   index_lock, calls, idxVars>>

\* the handler up to the index lock: the lookups and the mutation of the
\* library's documents
Find(t) ==
    /\ pc[t] = "find"
    /\ LET f == frame[t]
           missing == "L1" \notin DOMAIN data \/ DocPos(data["L1"], f.doc) = 0
           i == DocPos(data["L1"], f.doc)
       IN  CASE f.op = "search" ->
                  /\ pc' = [pc EXCEPT ![t] = IF "L1" \in DOMAIN indexes
                                             THEN "acquire_ix" ELSE "release_rw"]
                  /\ UNCHANGED <<data, frame>>
             [] f.op = "add_chunks_to_document" ->
                  IF missing
                  THEN /\ frame' = [frame EXCEPT ![t].ret = "False"]
                       /\ pc' = [pc EXCEPT ![t] = "release_rw"]
                       /\ UNCHANGED data
                  ELSE /\ data' = [data EXCEPT !["L1"].documents[i].chunks =
                                                   @ \o f.chunks]
                       /\ frame' = [frame EXCEPT ![t].todo = f.chunks]
                       /\ pc' = [pc EXCEPT ![t] = "acquire_ix"]
             [] f.op = "build_index" ->
                  IF "L1" \notin DOMAIN data
                  THEN /\ frame' = [frame EXCEPT ![t].ret = "False"]
                       /\ pc' = [pc EXCEPT ![t] = "release_rw"]
                       /\ UNCHANGED data
                  ELSE /\ pc' = [pc EXCEPT ![t] = "replace"]
                       /\ UNCHANGED <<data, frame>>
             [] f.op = "delete_document" ->
                  IF missing
                  THEN /\ frame' = [frame EXCEPT ![t].ret = "False"]
                       /\ pc' = [pc EXCEPT ![t] = "release_rw"]
                       /\ UNCHANGED data
                  ELSE /\ data' = [data EXCEPT !["L1"].documents = RemoveAt(@, i)]
                       /\ frame' = [frame EXCEPT ![t].todo = AllChunks(data'["L1"])]
                       /\ pc' = [pc EXCEPT ![t] = "acquire_ix"]
    /\ UNCHANGED <<indexes, snapshot, persistence_path, last, removed, next_id,
                   rw_lock, index_lock, calls, history, idxVars>>

\* build_index(library_id, "lsh", ...): a new index over all chunks of the
\* library is built and put in place of the old one
Replace(t) ==
    /\ pc[t] = "replace"
    /\ \E params \in StoreLSHParams :
       LET index == add_chunks(create_index("lsh", params[1], params[2]),
                               AllChunks(data["L1"]))
       IN  \E planes \in SampledPlanes(index) :
             LET b == build(index, planes)
             IN  /\ indexes' = IF b.raised THEN indexes
                               ELSE [indexes EXCEPT !["L1"] = b.index]
                 /\ frame' = [frame EXCEPT ![t].raised = b.raised]
                 /\ pc' = [pc EXCEPT ![t] = IF b.raised THEN "release_rw" ELSE "persist"]
    /\ UNCHANGED <<data, snapshot, persistence_path, last, removed, next_id,
                   rw_lock, index_lock, calls, history, idxVars>>

\* _acquire_index_lock
AcquireIX(t) ==
    /\ pc[t] = "acquire_ix"
    /\ CanAcquire(index_lock, t)
    /\ index_lock' = Acquired(index_lock, t)
    /\ pc' = [pc EXCEPT ![t] = CASE frame[t].op = "search" -> "compute"
                                 [] frame[t].op = "delete_document" -> "reset"
                                 [] OTHER -> "add_chunk"]
    /\ UNCHANGED <<data, indexes, snapshot, persistence_path, last, removed, next_id,
                   rw_lock, frame, calls, history, idxVars>>

\* delete_document's "index.chunks = []; index.embeddings = []"
Reset(t) ==
    /\ pc[t] = "reset"
    /\ indexes' = [indexes EXCEPT !["L1"] = reset_chunks(@)]
    /\ pc' = [pc EXCEPT ![t] = "add_chunk"]
    /\ UNCHANGED <<data, snapshot, persistence_path, last, removed, next_id,
                   rw_lock, index_lock, frame, calls, history, idxVars>>

\* one round of the loop of BaseIndex.add_chunks
AddChunk(t) ==
    /\ pc[t] = "add_chunk"
    /\ IF frame[t].todo = <<>>
       THEN /\ pc' = [pc EXCEPT ![t] = "build"]
            /\ UNCHANGED <<indexes, frame>>
       ELSE /\ indexes' = [indexes EXCEPT !["L1"] =
                              add_chunks(@, <<Head(frame[t].todo)>>)]
            /\ frame' = [frame EXCEPT ![t].todo = Tail(@)]
            /\ UNCHANGED pc
    /\ UNCHANGED <<data, snapshot, persistence_path, last, removed, next_id,
                   rw_lock, index_lock, calls, history, idxVars>>

\* index.build()
Build(t) ==
    /\ pc[t] = "build"
    /\ \E planes \in SampledPlanes(indexes["L1"]) :
          LET b == build(indexes["L1"], planes)
          IN  /\ indexes' = [indexes EXCEPT !["L1"] = b.index]
              /\ frame' = [frame EXCEPT ![t].raised = b.raised]
    /\ pc' = [pc EXCEPT ![t] = "release_ix"]
    /\ UNCHANGED <<data, snapshot, persistence_path, last, removed, next_id,
                   rw_lock, index_lock, calls, history, idxVars>>

\* search's "index.search(query_embedding, k)"
Compute(t) ==
    /\ pc[t] = "compute"
    /\ \E ties \in TiePolicies :
          LET index == indexes["L1"]
              result == search(index, frame[t].query, frame[t].k, ties)
          IN  frame' = [frame EXCEPT ![t].result = result,
                                     ![t].raised = result.raised,
                                     ![t].computed = TRUE,
                                     ![t].seen = [i \in 1..Len(index.chunks) |->
                                                     index.chunks[i].id],
                                     ![t].seen_built = index.is_built]
    /\ pc' = [pc EXCEPT ![t] = "release_ix"]
    /\ UNCHANGED <<data, indexes, snapshot, persistence_path, last, removed, next_id,
                   rw_lock, index_lock, calls, history, idxVars>>

\* ReleaseIX without the inner try/finally: an exception of index.build() or
\* index.search() leaves the handler with the index lock still held
ReleaseIXUnlessRaised(t) ==
    /\ pc[t] = "release_ix"
    /\ index_lock' = IF frame[t].raised THEN index_lock ELSE Released(index_lock)
    /\ pc' = [pc EXCEPT ![t] = IF frame[t].raised \/ frame[t].op = "search"
                               THEN "release_rw" ELSE "persist"]
    /\ UNCHANGED <<data, indexes, snapshot, persistence_path, last, removed, next_id,
                   rw_lock, frame, calls, history, idxVars>>

\* _release_index_lock, in the finally of the inner try
ReleaseIX(t) ==
    /\ pc[t] = "release_ix"
    /\ index_lock' = Released(index_lock)
    /\ pc' = [pc EXCEPT ![t] = IF frame[t].raised \/ frame[t].op = "search"
                               THEN "release_rw" ELSE "persist"]
    /\ UNCHANGED <<data, indexes, snapshot, persistence_path, last, removed, next_id,
                   rw_lock, frame, calls, history, idxVars>>

\* "if self._persistence_path: self._persist_to_disk()" and "return True"
PersistAndReturn(t) ==
    /\ pc[t] = "persist"
    /\ snapshot' = Persist(data)
    /\ frame' = [frame EXCEPT ![t].ret = "True"]
    /\ pc' = [pc EXCEPT ![t] = "release_rw"]
    /\ UNCHANGED <<data, indexes, persistence_path, last, removed, next_id,
                   rw_lock, index_lock, calls, history, idxVars>>

\* _release_write_lock / _release_read_lock in the outer finally; the call
\* returns or raises
ReleaseRW(t) ==
    /\ pc[t] = "release_rw"
    /\ rw_lock' = Released(rw_lock)
    /\ history' = IF frame[t].op = "search" THEN history
                  ELSE [history EXCEPT ![frame[t].entry].returned = TRUE,
                                       ![frame[t].entry].raised = frame[t].raised,
                                       ![frame[t].entry].ret = frame[t].ret]
    /\ pc' = [pc EXCEPT ![t] = "idle"]
    /\ frame' = [frame EXCEPT ![t] = NoFrame]
    /\ UNCHANGED <<data, indexes, snapshot, persistence_path, last, removed, next_id,
                   index_lock, calls, idxVars>>

NextConc ==
    \E t \in Threads :
        \/ \E chunks \in NewChunkLists(1, 2, ConcVectors) :
              Call(t, "add_chunks_to_document", "D1", chunks, <<>>, 0)
        \/ Call(t, "delete_document", "D1", <<>>, <<>>, 0)
        \/ Call(t, "build_index", "", <<>>, <<>>, 0)
        \/ \E q \in ConcQueries, k \in ConcKs : Call(t, "search", "", <<>>, q, k)
        \/ AcquireRW(t)
        \/ Find(t)
        \/ Replace(t)
        \/ AcquireIX(t)
        \/ Reset(t)
        \/ AddChunk(t)
        \/ Build(t)
        \/ Compute(t)
        \/ ReleaseIX(t)
        \/ PersistAndReturn(t)
        \/ ReleaseRW(t)

SpecConc == InitConc /\ [][NextConc]_vars

-----------------------------------------------------------------------------
(* SpecSvc: threads calling DocumentService.create_document and              *)
(* DocumentService.update_document on the library L1.  A service method      *)
(* makes several store calls; each store call holds _rw_lock from start to   *)
(* end and is one step here, and other threads run between the steps.        *)

\* document names as the request carries them: sequences of characters
SvcNames == {<<"a">>, <<"a", " ">>, <<" ">>, <<"b">>}

\* str.strip()
RECURSIVE LStrip(_)
LStrip(s) == IF s # <<>> /\ Head(s) = " " THEN LStrip(Tail(s)) ELSE s
RECURSIVE RStrip(_)
RStrip(s) == IF s # <<>> /\ s[Len(s)] = " " THEN RStrip(SubSeq(s, 1, Len(s) - 1)) ELSE s
Strip(s) == RStrip(LStrip(s))

\* Document(name=..., metadata=...): a document without chunks; its id (uuid4)
\* is the number of ids handed out before it
NamedDocument(id, name) == [id |-> id, name |-> name, chunks |-> <<>>]

\* the locals of a service call
NoSvcFrame == [op |-> "none", doc |-> -1, name |-> <<>>]

InitSvc ==
    /\ data = Put(EmptyDict, "L1", Library(<<>>))
    /\ indexes = Put(EmptyDict, "L1", create_index("linear", 0, 0))
    /\ snapshot = EmptyDict
    /\ persistence_path = FALSE
    /\ last = Outcome("init", "", "None", FALSE)
    /\ removed = {}
    /\ next_id = 0
    /\ rw_lock = <<>>
    /\ index_lock = <<>>
    /\ pc = [t \in Threads |-> "idle"]
    /\ frame = [t \in Threads |-> NoSvcFrame]
    /\ calls = 0
    /\ history = <<>>
    /\ IdleIdx

\* the service method returns ret or raises
SvcReturn(t, ret, raised) ==
    /\ last' = Outcome(frame[t].op, "L1", ret, raised)
    /\ pc' = [pc EXCEPT ![t] = "idle"]
    /\ frame' = [frame EXCEPT ![t] = NoSvcFrame]

\* a thread calls create_document(L1, request) or update_document(L1, d, request)
SvcCall(t, op, d, name) ==
    /\ pc[t] = "idle"
    /\ calls < MaxCalls
    /\ calls' = calls + 1
    /\ frame' = [frame EXCEPT ![t] = [op |-> op, doc |-> d, name |-> name]]
    /\ pc' = [pc EXCEPT ![t] = IF op = "create_document" THEN "get_library"
                               ELSE "get_document"]
    /\ UNCHANGED <<data, indexes, snapshot, persistence_path, last, removed,
                   next_id, rw_lock, index_lock, history, idxVars>>

\* create_document: library_repository.get_by_id, then the check of the name
SvcGetLibrary(t) ==
    /\ pc[t] = "get_library"
    /\ IF "L1" \notin DOMAIN data \/ Strip(frame[t].name) = <<>>
       THEN SvcReturn(t, "None", TRUE)
       ELSE /\ pc' = [pc EXCEPT ![t] = "get_all"]
            /\ UNCHANGED <<last, frame>>
    /\ UNCHANGED <<data, indexes, snapshot, persistence_path, removed, next_id,
                   rw_lock, index_lock, calls, history, idxVars>>

\* update_document: self.get_document, then the check of the name
SvcGetDocument(t) ==
    /\ pc[t] = "get_document"
    /\ IF DocPos(data["L1"], frame[t].doc) = 0 \/ Strip(frame[t].name) = <<>>
       THEN SvcReturn(t, "None", TRUE)
       ELSE /\ pc' = [pc EXCEPT ![t] = "get_all"]
            /\ UNCHANGED <<last, frame>>
    /\ UNCHANGED <<data, indexes, snapshot, persistence_path, removed, next_id,
                   rw_lock, index_lock, calls, history, idxVars>>

\* document_repository.get_all and the loop looking for the name among the
\* documents of the library (update_document leaves its own document out)
SvcGetAll(t) ==
    /\ pc[t] = "get_all"
    /\ LET docs == data["L1"].documents
           taken == \E i \in 1..Len(docs) :
                       /\ docs[i].name = Strip(frame[t].name)
                       /\ frame[t].op = "update_document" => docs[i].id # frame[t].doc
       IN  IF taken
           THEN SvcReturn(t, "None", TRUE)
           ELSE /\ pc' = [pc EXCEPT ![t] = "save"]
                /\ UNCHANGED <<last, frame>>
    /\ UNCHANGED <<data, indexes, snapshot, persistence_path, removed, next_id,
                   rw_lock, index_lock, calls, history, idxVars>>

\* document_repository.create: the store's create_document
SvcCreate(t) ==
    /\ pc[t] = "save"
    /\ frame[t].op = "create_document"
    /\ data' = [data EXCEPT !["L1"].documents =
                   Append(@, NamedDocument(next_id, Strip(frame[t].name)))]
    /\ next_id' = next_id + 1
    /\ indexes' = [indexes EXCEPT !["L1"] = AddAndBuild(@, <<>>, <<>>).index]
    /\ SvcReturn(t, "document", FALSE)
    /\ UNCHANGED <<snapshot, persistence_path, removed, rw_lock, index_lock,
                   calls, history, idxVars>>

\* document_repository.update: the store's update_document with a new name
SvcUpdate(t) ==
    /\ pc[t] = "save"
    /\ frame[t].op = "update_document"
    /\ LET i == DocPos(data["L1"], frame[t].doc)
       IN  IF i = 0
           THEN /\ SvcReturn(t, "None", FALSE)
                /\ UNCHANGED data
           ELSE /\ data' = [data EXCEPT !["L1"].documents[i].name = Strip(frame[t].name)]
                /\ SvcReturn(t, "document", FALSE)
    /\ UNCHANGED <<indexes, snapshot, persistence_path, removed, next_id, rw_lock,
                   index_lock, calls, history, idxVars>>

NextSvc ==
    \E t \in Threads :
        \/ \E name \in SvcNames : SvcCall(t, "create_document", -1, name)
        \/ \E name \in SvcNames, d \in 0..(next_id - 1) :
              SvcCall(t, "update_document", d, name)
        \/ SvcGetLibrary(t)
        \/ SvcGetDocument(t)
        \/ SvcGetAll(t)
        \/ SvcCreate(t)
        \/ SvcUpdate(t)

SpecSvc == InitSvc /\ [][NextSvc]_vars

-----------------------------------------------------------------------------
(* SpecRW: threads reading and writing two libraries of a store that has a   *)
(* persistence path, one statement of the handler per step: get_library and  *)
(* search as the reads, add_chunks_to_document as the write, with its index  *)
(* step and its snapshot step.  index_lock holds one lock per library here.  *)

ReadOps == {"get_library", "search"}
\* embeddings of the chunks the threads append
RWVectors == {<<0, 1>>}
\* what writing the snapshot file can come to: written, open() failing (the
\* file is left as it was), json.dump failing (the file is left truncated)
DiskOutcomes == {"written", "open_failed", "dump_failed"}
Truncated == <<"truncated">>

\* _persist_to_disk without its "except Exception"
PersistUncaught(d, how) ==
    [file |-> CASE how = "written" -> d
                [] how = "open_failed" -> snapshot
                [] OTHER -> Truncated,
     raised |-> how # "written"]

\* _persist_to_disk: the file afterwards and whether the caller sees an exception
PersistToDisk(d, how) ==
    [file |-> CASE how = "written" -> d
                [] how = "open_failed" -> snapshot
                [] OTHER -> Truncated,
     raised |-> FALSE]

\* the locals of a thread outside a call; chunks are the chunks an add appends
\* and the chunks a search returns
NoRWFrame ==
    [op |-> "none", lib |-> "", chunks |-> <<>>, query |-> <<>>, k |-> 0,
     raised |-> FALSE, ret |-> "None", persist |-> "none"]

\* what a call that returned did
RWOutcome(t, f) == [thread |-> t, op |-> f.op, lib |-> f.lib, chunks |-> f.chunks,
                    ret |-> f.ret, raised |-> f.raised, persist |-> f.persist]

InitRW ==
    /\ data = [l \in LibIds |-> ConcLibrary]
    /\ indexes = [l \in LibIds |-> ConcIndex]
    /\ snapshot = [l \in LibIds |-> ConcLibrary]
    /\ persistence_path = TRUE
    /\ last = RWOutcome("", NoRWFrame)
    /\ removed = {}
    /\ next_id = 0
    /\ rw_lock = Free
    /\ index_lock = [l \in LibIds |-> Free]
    /\ pc = [t \in Threads |-> "idle"]
    /\ frame = [t \in Threads |-> NoRWFrame]
    /\ calls = 0
    /\ history = <<>>
    /\ IdleIdx

\* a thread calls an operation on the library l
RWCall(t, op, l, chunks, q, k) ==
    /\ pc[t] = "idle"
    /\ calls < MaxCalls
    /\ calls' = calls + 1
    /\ frame' = [frame EXCEPT ![t] = [NoRWFrame EXCEPT !.op = op, !.lib = l,
                                         !.chunks = chunks, !.query = q, !.k = k]]
    /\ next_id' = next_id + Len(chunks)
    /\ pc' = [pc EXCEPT ![t] = "acquire_rw"]
    /\ UNCHANGED <<data, indexes, snapshot, persistence_path, last, removed,
                   rw_lock, index_lock, history, idxVars>>

\* RWAcquire not waiting for the lock to be free
RWAcquireUnlocked(t) ==
    /\ pc[t] = "acquire_rw"
    /\ rw_lock' = Acquired(rw_lock, t)
    /\ pc' = [pc EXCEPT ![t] = "body"]
    /\ UNCHANGED <<data, indexes, snapshot, persistence_path, last, removed, next_id,
                   index_lock, frame, calls, history, idxVars>>

\* _acquire_read_lock and _acquire_write_lock: self._rw_lock.acquire()
RWAcquire(t) ==
    /\ pc[t] = "acquire_rw"
    /\ CanAcquire(rw_lock, t)
    /\ rw_lock' = Acquired(rw_lock, t)
    /\ pc' = [pc EXCEPT ![t] = "body"]
    /\ UNCHANGED <<data, indexes, snapshot, persistence_path, last, removed, next_id,
                   index_lock, frame, calls, history, idxVars>>

\* get_library: return self._data.get(library_id)
RWGetLibrary(t) ==
    /\ pc[t] = "body"
    /\ frame[t].op = "get_library"
    /\ frame' = [frame EXCEPT ![t].ret =
                    IF frame[t].lib \in DOMAIN data THEN "library" ELSE "None"]
    /\ pc' = [pc EXCEPT ![t] = "release_rw"]
    /\ UNCHANGED <<data, indexes, snapshot, persistence_path, last, removed, next_id,
                   rw_lock, index_lock, calls, history, idxVars>>

\* search up to the index lock: "if library_id not in self._indexes: return [], []"
RWLookup(t) ==
    /\ pc[t] = "body"
    /\ frame[t].op = "search"
    /\ IF frame[t].lib \notin DOMAIN indexes
       THEN /\ frame' = [frame EXCEPT ![t].ret = "([], [])"]
            /\ pc' = [pc EXCEPT ![t] = "release_rw"]
       ELSE /\ pc' = [pc EXCEPT ![t] = "acquire_ix"]
            /\ UNCHANGED frame
    /\ UNCHANGED <<data, indexes, snapshot, persistence_path, last, removed, next_id,
                   rw_lock, index_lock, calls, history, idxVars>>

\* add_chunks_to_document up to the index lock: the lookups and
\* doc.chunks.extend(chunks)
RWExtend(t) ==
    /\ pc[t] = "body"
    /\ frame[t].op = "add_chunks_to_document"
    /\ LET l == frame[t].lib
           i == IF l \in DOMAIN data THEN DocPos(data[l], "D1") ELSE 0
       IN  IF i = 0
           THEN /\ frame' = [frame EXCEPT ![t].ret = "False"]
                /\ pc' = [pc EXCEPT ![t] = "release_rw"]
                /\ UNCHANGED data
           ELSE /\ data' = [data EXCEPT ![l].documents[i].chunks = @ \o frame[t].chunks]
                /\ pc' = [pc EXCEPT ![t] = IF l \in DOMAIN indexes THEN "acquire_ix"
                                           ELSE "persist"]
                /\ UNCHANGED frame
    /\ UNCHANGED <<indexes, snapshot, persistence_path, last, removed, next_id,
                   rw_lock, index_lock, calls, history, idxVars>>

\* _acquire_index_lock(library_id)
RWAcquireIX(t) ==
    /\ pc[t] = "acquire_ix"
    /\ CanAcquire(index_lock[frame[t].lib], t)
    /\ index_lock' = [index_lock EXCEPT ![frame[t].lib] = Acquired(@, t)]
    /\ pc' = [pc EXCEPT ![t] = "index"]
    /\ UNCHANGED <<data, indexes, snapshot, persistence_path, last, removed, next_id,
                   rw_lock, frame, calls, history, idxVars>>

\* under the index lock, search: index.search(query_embedding, k)
RWCompute(t) ==
    /\ pc[t] = "index"
    /\ frame[t].op = "search"
    /\ \E ties \in TiePolicies :
          LET r == search(indexes[frame[t].lib], frame[t].query, frame[t].k, ties)
          IN  frame' = [frame EXCEPT ![t].raised = r.raised,
                                     ![t].chunks = r.chunks,
                                     ![t].ret = IF r.raised THEN "None" ELSE "results"]
    /\ pc' = [pc EXCEPT ![t] = "release_ix"]
    /\ UNCHANGED <<data, indexes, snapshot, persistence_path, last, removed, next_id,
                   rw_lock, index_lock, calls, history, idxVars>>

\* under the index lock, add_chunks_to_document: index.add_chunks(chunks);
\* index.build()
RWRebuild(t) ==
    /\ pc[t] = "index"
    /\ frame[t].op = "add_chunks_to_document"
    /\ LET l == frame[t].lib
       IN  \E planes \in SampledPlanes(add_chunks(indexes[l], frame[t].chunks)) :
              LET b == AddAndBuild(indexes[l], frame[t].chunks, planes)
              IN  /\ indexes' = [indexes EXCEPT ![l] = b.index]
                  /\ frame' = [frame EXCEPT ![t].raised = b.raised]
    /\ pc' = [pc EXCEPT ![t] = "release_ix"]
    /\ UNCHANGED <<data, snapshot, persistence_path, last, removed, next_id,
                   rw_lock, index_lock, calls, history, idxVars>>

\* RWReleaseIX going on without releasing the index lock
RWKeepIX(t) ==
    /\ pc[t] = "release_ix"
    /\ pc' = [pc EXCEPT ![t] = IF frame[t].op = "search" \/ frame[t].raised
                               THEN "release_rw" ELSE "persist"]
    /\ UNCHANGED <<data, indexes, snapshot, persistence_path, last, removed, next_id,
                   rw_lock, index_lock, frame, calls, history, idxVars>>

\* _release_index_lock(library_id), in the finally of the index step
RWReleaseIX(t) ==
    /\ pc[t] = "release_ix"
    /\ index_lock' = [index_lock EXCEPT ![frame[t].lib] = Released(@)]
    /\ pc' = [pc EXCEPT ![t] = IF frame[t].op = "search" \/ frame[t].raised
                               THEN "release_rw" ELSE "persist"]
    /\ UNCHANGED <<data, indexes, snapshot, persistence_path, last, removed, next_id,
                   rw_lock, frame, calls, history, idxVars>>

\* "if self._persistence_path: self._persist_to_disk()" and "return True"
RWPersist(t) ==
    /\ pc[t] = "persist"
    /\ \E how \in DiskOutcomes :
          LET p == IF persistence_path THEN PersistToDisk(data, how)
                   ELSE [file |-> snapshot, raised |-> FALSE]
          IN  /\ snapshot' = p.file
              /\ frame' = [frame EXCEPT ![t].persist = how,
                                        ![t].raised = p.raised,
                                        ![t].ret = IF p.raised THEN "None" ELSE "True"]
    /\ pc' = [pc EXCEPT ![t] = "release_rw"]
    /\ UNCHANGED <<data, indexes, persistence_path, last, removed, next_id,
                   rw_lock, index_lock, calls, history, idxVars>>

\* _release_read_lock and _release_write_lock, in the finally: the call returns
RWRelease(t) ==
    /\ pc[t] = "release_rw"
    /\ rw_lock' = Released(rw_lock)
    /\ last' = RWOutcome(t, frame[t])
    /\ pc' = [pc EXCEPT ![t] = "idle"]
    /\ frame' = [frame EXCEPT ![t] = NoRWFrame]
    /\ UNCHANGED <<data, indexes, snapshot, persistence_path, removed, next_id,
                   index_lock, calls, history, idxVars>>

NextRW ==
    \E t \in Threads :
        \/ \E l \in LibIds : RWCall(t, "get_library", l, <<>>, <<>>, 0)
        \/ \E l \in LibIds, q \in ConcQueries, k \in ConcKs :
              RWCall(t, "search", l, <<>>, q, k)
        \/ \E l \in LibIds, chunks \in NewChunkLists(1, 1, RWVectors) :
              RWCall(t, "add_chunks_to_document", l, chunks, <<>>, 0)
        \/ RWAcquire(t)
        \/ RWGetLibrary(t)
        \/ RWLookup(t)
        \/ RWExtend(t)
        \/ RWAcquireIX(t)
        \/ RWCompute(t)
        \/ RWRebuild(t)
        \/ RWReleaseIX(t)
        \/ RWPersist(t)
        \/ RWRelease(t)

SpecRW == InitRW /\ [][NextRW]_vars

-----------------------------------------------------------------------------
(* SpecIds: the store's create and delete operations with ids the caller     *)
(* chooses, ids already in the store included.                               *)

\* documents one library holds in a run
MaxDocs == 2

NextIds ==
    \E l \in LibIds :
        \/ CreateLibrary(l)
        \/ DeleteLibrary(l)
        \/ \E d \in DocIds, chunks \in NewChunkLists(0, 1, DiskVectors) :
              /\ l \in DOMAIN data => Len(data[l].documents) < MaxDocs
              /\ CreateDocument(l, d, chunks)
        \/ \E d \in DocIds : DeleteDocument(l, d)

SpecIds == Init /\ [][NextIds]_vars

-----------------------------------------------------------------------------
(* SpecSnap: what the snapshot file carries.  Libraries and documents have   *)
(* their created_at and updated_at here, the store runs with a persistence   *)
(* path, and snapshot holds the JSON text the last _persist_to_disk wrote.   *)
(* The store holds the library L1 with at most one document.                 *)
(* An instant is a number of half microseconds: time.time() is finer than    *)
(* the microseconds of a datetime.                                           *)

\* readings of the clock: on a whole microsecond, and between two
Times == {2, 3}
\* embeddings of the chunks of the documents
SnapVectors == {<<1, 0>>}
\* utcoffset of the host's local time, in half microseconds
TZOffsets == {0, 4}

\* datetime.utcnow(): a naive datetime, whole microseconds
UtcNow(t) == [kind |-> "datetime", at |-> 2 * (t \div 2)]
\* time.time(): a float
TimeTime(t) == [kind |-> "float", at |-> t]

\* json.dump(..., default=str) of a field value: a float goes out as a
\* number, a datetime as the string str(value)
DumpStamp(v) == IF v.kind = "float" THEN [kind |-> "number", at |-> v.at]
                ELSE [kind |-> "string", at |-> v.at]

\* datetime.fromtimestamp(x): local time, rounded half to even to microseconds
FromTimestamp(x, tz) ==
    LET whole == x \div 2
        us == IF x % 2 = 0 THEN whole
              ELSE IF whole % 2 = 0 THEN whole ELSE whole + 1
    IN  [kind |-> "datetime", at |-> 2 * us + tz]

\* validate_datetime (mode="before") and the field's validation on load:
\* a number goes through datetime.fromtimestamp, a string is parsed
LoadStamp(v, tz) == IF v.kind = "number" THEN FromTimestamp(v.at, tz)
                    ELSE [kind |-> "datetime", at |-> v.at]

StampedDocument(id, chunks, created, updated) ==
    [id |-> id, chunks |-> chunks, created_at |-> created, updated_at |-> updated]
StampedLibrary(documents, created, updated) ==
    [documents |-> documents, created_at |-> created, updated_at |-> updated]

\* library.model_dump() written by json.dump, for every library
DumpAll(d) ==
    [l \in DOMAIN d |->
        StampedLibrary([i \in 1..Len(d[l].documents) |->
                           LET doc == d[l].documents[i]
                           IN  StampedDocument(doc.id, doc.chunks,
                                               DumpStamp(doc.created_at),
                                               DumpStamp(doc.updated_at))],
                       DumpStamp(d[l].created_at), DumpStamp(d[l].updated_at))]

\* json.load and Library(**lib_data), for every library of the file
LoadAll(file, tz) ==
    [l \in DOMAIN file |->
        StampedLibrary([i \in 1..Len(file[l].documents) |->
                           LET doc == file[l].documents[i]
                           IN  StampedDocument(doc.id, doc.chunks,
                                               LoadStamp(doc.created_at, tz),
                                               LoadStamp(doc.updated_at, tz))],
                       LoadStamp(file[l].created_at, tz),
                       LoadStamp(file[l].updated_at, tz))]

\* create_library(Library(...)) at the clock reading t
SnapCreateLibrary(l, t) ==
    /\ IF l \in DOMAIN data
       THEN /\ last' = Outcome("create_library", l, "None", TRUE)
            /\ UNCHANGED <<data, indexes, snapshot>>
       ELSE /\ indexes' = Put(indexes, l, create_index("linear", 0, 0))
            /\ data' = Put(data, l, StampedLibrary(<<>>, UtcNow(t), UtcNow(t)))
            /\ snapshot' = DumpAll(data')
            /\ last' = Outcome("create_library", l, "library", FALSE)
    /\ UNCHANGED <<persistence_path, removed, next_id, idxVars, concVars>>

\* update_library(library_id, {"name": ...}) at the clock reading t
SnapUpdateLibrary(l, t) ==
    /\ IF l \notin DOMAIN data
       THEN /\ last' = Outcome("update_library", l, "None", FALSE)
            /\ UNCHANGED <<data, snapshot>>
       ELSE /\ data' = [data EXCEPT ![l].updated_at = TimeTime(t)]
            /\ snapshot' = DumpAll(data')
            /\ last' = Outcome("update_library", l, "library", FALSE)
    /\ UNCHANGED <<indexes, persistence_path, removed, next_id, idxVars, concVars>>

\* create_document(library_id, Document(...)) at the clock reading t
SnapCreateDocument(l, d, chunks, t) ==
    /\ IF l \notin DOMAIN data
       THEN /\ last' = Outcome("create_document", l, "None", FALSE)
            /\ UNCHANGED <<data, indexes, snapshot, next_id>>
       ELSE /\ data' = [data EXCEPT
                           ![l].documents =
                               Append(@, StampedDocument(d, chunks, UtcNow(t), UtcNow(t))),
                           ![l].updated_at = TimeTime(t)]
            /\ next_id' = next_id + Len(chunks)
            /\ indexes' = [indexes EXCEPT ![l] = AddAndBuild(@, chunks, <<>>).index]
            /\ snapshot' = DumpAll(data')
            /\ last' = Outcome("create_document", l, "document", FALSE)
    /\ UNCHANGED <<persistence_path, removed, idxVars, concVars>>

\* add_chunks_to_document(library_id, document_id, chunks) at the clock reading t
SnapAddChunks(l, d, chunks, t) ==
    /\ IF l \notin DOMAIN data \/ DocPos(data[l], d) = 0
       THEN /\ last' = Outcome("add_chunks_to_document", l, "False", FALSE)
            /\ UNCHANGED <<data, indexes, snapshot, next_id>>
       ELSE /\ data' = [data EXCEPT
                           ![l].documents[DocPos(data[l], d)].chunks = @ \o chunks,
                           ![l].documents[DocPos(data[l], d)].updated_at = TimeTime(t),
                           ![l].updated_at = TimeTime(t)]
            /\ next_id' = next_id + Len(chunks)
            /\ indexes' = [indexes EXCEPT ![l] = AddAndBuild(@, chunks, <<>>).index]
            /\ snapshot' = DumpAll(data')
            /\ last' = Outcome("add_chunks_to_document", l, "True", FALSE)
    /\ UNCHANGED <<persistence_path, removed, idxVars, concVars>>

\* the process ends and a new store is made on the same path, on a host
\* whose local time is tz off UTC: __init__ and _load_from_disk
SnapRestart(tz) ==
    /\ data' = LoadAll(snapshot, tz)
    /\ indexes' = [l \in DOMAIN snapshot |-> LoadedIndex(data'[l])]
    /\ last' = Outcome("restart", "", "None", FALSE)
    /\ UNCHANGED <<persistence_path, snapshot, removed, next_id, idxVars, concVars>>

NextSnap ==
    \/ \E t \in Times :
          \/ SnapCreateLibrary("L1", t)
          \/ SnapUpdateLibrary("L1", t)
          \/ \E chunks \in NewChunkLists(0, 1, SnapVectors) :
                /\ DocsInUse = {}
                /\ SnapCreateDocument("L1", NewDocId, chunks, t)
          \/ \E d \in DocsInUse, chunks \in NewChunkLists(1, 1, SnapVectors) :
                SnapAddChunks("L1", d, chunks, t)
    \/ \E tz \in TZOffsets : SnapRestart(tz)

SpecSnap == InitDisk /\ [][NextSnap]_vars

-----------------------------------------------------------------------------
(* The search service (SearchService) over the store: chunks carry metadata,  *)
(* a query carries filters, and a library carries the index_type field of     *)
(* the Library entity.  A metadata value is an int, a str or (in a filter) a  *)
(* list; a str is the sequence of its character codes.  Specification         *)
(* SpecQuery.                                                                  *)

\* JSON values of metadata and filters
MInt(n)  == [t |-> "int",  v |-> <<n>>, items |-> <<>>]
MStr(s)  == [t |-> "str",  v |-> s,     items |-> <<>>]
MList(xs) == [t |-> "list", v |-> <<>>, items |-> xs]
\* the entry of a key the metadata dict does not hold
Missing == [t |-> "missing", v |-> <<>>, items |-> <<>>]
\* an element of a list value
Item(value) == [t |-> value.t, v |-> value.v]

\* the metadata keys in use, and the dict {x: ..., y: ...}
MetaKeys == {"x", "y"}
Metadata(x, y) == [key \in MetaKeys |-> IF key = "x" THEN x ELSE y]
HasKey(metadata, key) == key \in DOMAIN metadata /\ metadata[key].t # "missing"

\* "Ab", "a" as character codes
StrAb == <<65, 98>>
StrA  == <<97>>

\* a chunk with metadata
MetaChunk(id, embedding, metadata) ==
    [id |-> id, embedding |-> embedding, metadata |-> metadata]

\* the (embedding, metadata) pairs chunks are made of
ChunkKinds ==
    {<<<<1, 0>>, Metadata(MInt(2), Missing)>>,
     <<<<0, 1>>, Metadata(MStr(StrAb), MInt(1))>>}

\* one filter of the filters dict: operator is "" for a raw value
Filter(key, operator, value) == [key |-> key, operator |-> operator, value |-> value]

\* the filters dicts of the queries, as lists of their items in dict order
QueryFilters ==
    {<<>>,
     <<Filter("x", "", MInt(2))>>,
     <<Filter("x", "gt", MInt(1))>>,
     <<Filter("x", "lte", MStr(StrA))>>,
     <<Filter("x", "contains", MStr(StrA))>>,
     <<Filter("x", "in", MList(<<Item(MInt(2)), Item(MStr(StrAb))>>))>>,
     <<Filter("x", "not_in", MInt(2))>>,
     <<Filter("y", "", MInt(1)), Filter("x", "gte", MInt(2))>>}

\* the filters dicts of the queries that go across libraries
AcrossFilters == {<<>>, <<Filter("x", "lte", MStr(StrA))>>}

QueryVectors == {<<1, 0>>}
\* with one that no chunk's embedding can be multiplied with
AcrossVectors == {<<1, 0>>, <<1>>}
QueryKs == {1, MaxK}

\* str.lower()
Lower(s) == [i \in 1..Len(s) |-> IF s[i] \in 65..90 THEN s[i] + 32 ELSE s[i]]

\* a in b for two str
Substring(a, b) ==
    \E i \in 0..(Len(b) - Len(a)) : SubSeq(b, i + 1, i + Len(a)) = a

\* a < b for two str (or two int, held as one-element lists)
RECURSIVE SeqLess(_, _)
SeqLess(a, b) ==
    IF b = <<>> THEN FALSE
    ELSE IF a = <<>> THEN TRUE
    ELSE IF Head(a) # Head(b) THEN Head(a) < Head(b)
    ELSE SeqLess(Tail(a), Tail(b))

\* Python's ==, and whether < is defined between the two values
PyEq(a, b) == a.t = b.t /\ a.v = b.v
Orderable(a, b) == a.t = b.t /\ a.t \in {"int", "str"}

Bool(b) == IF b THEN "True" ELSE "False"
Not(verdict) ==
    IF verdict = "True" THEN "False" ELSE IF verdict = "False" THEN "True" ELSE verdict

\* chunk_value > filter_value and the like: "True", "False", or the TypeError
\* Python raises for values it cannot order
Compare(operator, a, b) ==
    IF ~Orderable(a, b) THEN "TypeError"
    ELSE CASE operator = "gt"  -> Bool(SeqLess(b.v, a.v))
           [] operator = "gte" -> Bool(~SeqLess(a.v, b.v))
           [] operator = "lt"  -> Bool(SeqLess(a.v, b.v))
           [] operator = "lte" -> Bool(~SeqLess(b.v, a.v))

\* chunk_value in filter_value
PyIn(a, b) ==
    CASE b.t = "list" -> Bool(\E i \in 1..Len(b.items) : PyEq(a, b.items[i]))
      [] b.t = "str"  -> IF a.t = "str" THEN Bool(Substring(a.v, b.v)) ELSE "TypeError"
      [] OTHER        -> "TypeError"

\* SearchService._evaluate_filter_operator, for every operator but regex
EvaluateFilterOperator(chunk_value, filter_spec) ==
    LET operator == filter_spec.operator
        filter_value == filter_spec.value
    IN  CASE operator \in {"gt", "gte", "lt", "lte"} ->
               Compare(operator, chunk_value, filter_value)
          [] operator = "contains" ->
               IF chunk_value.t = "str" /\ filter_value.t = "str"
               THEN Bool(Substring(Lower(filter_value.v), Lower(chunk_value.v)))
               ELSE "False"
          [] operator = "in"     -> PyIn(chunk_value, filter_value)
          [] operator = "not_in" -> Not(PyIn(chunk_value, filter_value))
          [] OTHER               -> Bool(PyEq(chunk_value, filter_value))

\* SearchService._chunk_matches_filters: the filters in dict order, the first
\* that fails (or raises) decides
RECURSIVE ChunkMatchesFilters(_, _)
ChunkMatchesFilters(chunk, filters) ==
    IF filters = <<>> THEN "True"
    ELSE LET key == Head(filters).key
             value == Head(filters)
         IN  IF ~HasKey(chunk.metadata, key) THEN "False"
             ELSE LET chunk_value == chunk.metadata[key]
                      verdict == IF value.operator # ""
                                 THEN EvaluateFilterOperator(chunk_value, value)
                                 ELSE Bool(PyEq(chunk_value, value.value))
                  IN  IF verdict = "True"
                      THEN ChunkMatchesFilters(chunk, Tail(filters))
                      ELSE verdict

\* the positions of a list of verdicts that are "True", ascending
RECURSIVE Kept(_, _)
Kept(verdicts, from) ==
    IF from > Len(verdicts) THEN <<>>
    ELSE IF verdicts[from] = "True" THEN <<from>> \o Kept(verdicts, from + 1)
    ELSE Kept(verdicts, from + 1)

\* SearchService._apply_metadata_filters; the chunks are examined in order and
\* the first raising one ends the call
ApplyMetadataFilters(chunks, scores, filters) ==
    LET n == Min(Len(chunks), Len(scores))
        verdicts == [i \in 1..n |-> ChunkMatchesFilters(chunks[i], filters)]
        kept == Kept(verdicts, 1)
    IN  IF \E i \in 1..n : verdicts[i] = "TypeError" THEN Raised("TypeError")
        ELSE Returned([r \in 1..Len(kept) |-> chunks[kept[r]]],
                      [r \in 1..Len(kept) |-> scores[kept[r]]])

\* the Library entity: index_type is None unless a caller sets it
QLibrary(documents) == [documents |-> documents, index_type |-> None]

SearchQuery(query_embedding, k, filters) ==
    [query_embedding |-> query_embedding, k |-> k, filters |-> filters]

SearchResult(chunks, scores, index_type) ==
    [raised |-> FALSE, error |-> "", chunks |-> chunks, scores |-> scores,
     total_found |-> Len(chunks), index_type |-> index_type]
SearchRaised(what) ==
    [raised |-> TRUE, error |-> what, chunks |-> <<>>, scores |-> <<>>,
     total_found |-> 0, index_type |-> ""]

\* InMemoryDatabase.search, through ChunkRepository.search
StoreSearch(library_id, query_embedding, k, ties) ==
    IF library_id \notin DOMAIN indexes THEN Returned(<<>>, <<>>)
    ELSE search(indexes[library_id], query_embedding, k, ties)

\* SearchService.search_similar_chunks
SearchSimilarChunks(library_id, query, ties) ==
    IF library_id \notin DOMAIN data THEN SearchRaised("Library not found")
    ELSE IF query.query_embedding = <<>> THEN SearchRaised("Query embedding cannot be empty")
    ELSE IF query.k <= 0 \/ query.k > 100 THEN SearchRaised("k must be between 1 and 100")
    ELSE LET found == StoreSearch(library_id, query.query_embedding, query.k, ties)
         IN  IF found.raised THEN SearchRaised(found.error)
             ELSE LET filtered == IF query.filters # <<>>
                                  THEN ApplyMetadataFilters(found.chunks, found.scores,
                                                            query.filters)
                                  ELSE found
                      library == data[library_id]
                      index_type == IF library.index_type # None
                                    THEN library.index_type[1] ELSE "unknown"
                  IN  IF filtered.raised THEN SearchRaised(filtered.error)
                      ELSE SearchResult(filtered.chunks, filtered.scores, index_type)

\* the ids of library_repository.get_all(), in some order
AllLibraryIds == DOMAIN data

\* the library ids search_across_libraries goes through: given is None or
\* Some(list)
SearchedIds(given) ==
    IF given = None \/ given[1] = <<>> THEN AllLibraryIds ELSE Range(given[1])

\* SearchAcrossLibraries with no entry for a library whose search raised
SearchAcrossLibrariesDropping(query, given, ties) ==
    [library_id \in {l \in SearchedIds(given) :
                        ~SearchSimilarChunks(l, query, ties).raised} |->
        SearchSimilarChunks(library_id, query, ties)]

\* SearchService.search_across_libraries: the results dict
SearchAcrossLibraries(query, given, ties) ==
    [library_id \in SearchedIds(given) |->
        LET result == SearchSimilarChunks(library_id, query, ties)
        IN  IF result.raised THEN SearchResult(<<>>, <<>>, "unknown") ELSE result]

\* the lists of library ids a caller passes
IdLists == {<<>>, <<"L1">>, <<"L1", "L2">>, <<"L2", "L1", "L2">>}

\* what the last search call was given and what it handed back
QueryOutcome(op, lib, query, ties) ==
    [op |-> op, lib |-> lib, query |-> query, ties |-> ties, given |-> None,
     result |-> SearchRaised(""), results |-> EmptyDict]
NoQuery == QueryOutcome("none", "", SearchQuery(<<>>, 0, <<>>), "stable")

InitQuery ==
    /\ data = EmptyDict
    /\ indexes = EmptyDict
    /\ last = NoQuery
    /\ next_id = 0
    /\ snapshot = EmptyDict
    /\ persistence_path = FALSE
    /\ removed = {}
    /\ IdleIdx
    /\ IdleConc

\* the id a new Library gets (uuid4): one no library of the store has
NewLibId == CHOOSE l \in LibIds \ DOMAIN data : l = "L1" \/ "L1" \in DOMAIN data

\* LibraryService.create_library
QCreateLibrary(l) ==
    /\ l \notin DOMAIN data
    /\ data' = Put(data, l, QLibrary(<<>>))
    /\ indexes' = Put(indexes, l, create_index("linear", 0, 0))
    /\ last' = NoQuery
    /\ UNCHANGED <<next_id, snapshot, persistence_path, removed, idxVars, concVars>>

\* create_document with one chunk, then the index is added to and built
QCreateDocument(l, kind) ==
    /\ l \in DOMAIN data
    /\ next_id < MaxIds
    /\ LET chunks == <<MetaChunk(next_id + 1, kind[1], kind[2])>>
       IN  /\ data' = [data EXCEPT ![l].documents =
                          Append(@, Document(Len(@) + 1, chunks))]
           /\ \E planes \in SampledPlanes(add_chunks(indexes[l], chunks)) :
                indexes' = [indexes EXCEPT
                               ![l] = AddAndBuild(indexes[l], chunks, planes).index]
    /\ next_id' = next_id + 1
    /\ last' = NoQuery
    /\ UNCHANGED <<snapshot, persistence_path, removed, idxVars, concVars>>

\* LibraryService.build_index
QBuildIndex(l, index_type, params) ==
    /\ l \in DOMAIN data
    /\ LET index == add_chunks(create_index(index_type, params[1], params[2]),
                               AllChunks(data[l]))
       IN  \E planes \in SampledPlanes(index) :
             LET b == build(index, planes)
             IN  /\ indexes' = IF b.raised THEN indexes
                               ELSE [indexes EXCEPT ![l] = b.index]
                 /\ last' = NoQuery
    /\ UNCHANGED <<data, next_id, snapshot, persistence_path, removed, idxVars,
                   concVars>>

\* search_similar_chunks(library_id, query)
QSearch(l, query, ties) ==
    /\ last' = [QueryOutcome("search", l, query, ties) EXCEPT
                   !.result = SearchSimilarChunks(l, query, ties)]
    /\ UNCHANGED <<data, indexes, next_id, snapshot, persistence_path, removed,
                   idxVars, concVars>>

\* search_across_libraries(query, library_ids)
QSearchAcross(query, given, ties) ==
    /\ last' = [QueryOutcome("search_across", "", query, ties) EXCEPT
                   !.given = given,
                   !.results = SearchAcrossLibraries(query, given, ties)]
    /\ UNCHANGED <<data, indexes, next_id, snapshot, persistence_path, removed,
                   idxVars, concVars>>

NextQuery ==
    \/ DOMAIN data # LibIds /\ QCreateLibrary(NewLibId)
    \/ \E l \in LibIds, kind \in ChunkKinds : QCreateDocument(l, kind)
    \/ \E l \in LibIds, index_type \in IndexTypes :
         QBuildIndex(l, index_type, IF index_type = "lsh" THEN <<1, 2>> ELSE <<0, 0>>)
    \/ \E l \in LibIds, q \in QueryVectors, k \in QueryKs, f \in QueryFilters,
          ties \in TiePolicies :
         QSearch(l, SearchQuery(q, k, f), ties)
    \/ \E q \in AcrossVectors, f \in AcrossFilters,
          given \in {None} \cup {Some(ids) : ids \in IdLists} :
         QSearchAcross(SearchQuery(q, MaxK, f), given, "stable")

SpecQuery == InitQuery /\ [][NextQuery]_vars

-----------------------------------------------------------------------------
(* The demo service (DemoService): demos are started, run in a background     *)
(* task each (run_demo_async), looked up and deleted.  data holds self.demos, *)
(* frame the position of each demo's run.  A text is the list of its parts.   *)
(* Specification SpecDemo.                                                     *)

DemoIds == {"d1", "d2"}
\* the steps of a run that call other services
MaxSteps == 2
\* str(e) of the exceptions a step can raise
DemoErrors == {"Test error", "Library not found"}

\* the progress text of the n-th step, the number as a tally
StepText(n) == <<"Step ">> \o [i \in 1..n |-> "I"]
\* f"Failed: {str(e)}"
FailedStep(error) == <<"Failed: ", error>>
\* part in text
Contains(text, part) == \E i \in 1..Len(text) : text[i] = part

\* the dict start_cohere_demo puts in self.demos
NewDemo == [status |-> "pending", step |-> <<"Initializing">>, error |-> None,
            completed_at |-> FALSE]

\* a run: where it is, how many steps it did, the exception it raised, and
\* whether that exception is still in flight
NoRun == [pc |-> "idle", steps |-> 0, error |-> None, raised |-> FALSE,
          in_flight |-> FALSE]

DemoOutcome(op, demo, raised, after_failure) ==
    [op |-> op, demo |-> demo, raised |-> raised, after_failure |-> after_failure,
     status |-> "", step |-> <<>>]

InitDemo ==
    /\ data = EmptyDict
    /\ frame = [d \in DemoIds |-> NoRun]
    /\ last = DemoOutcome("none", "", FALSE, FALSE)
    /\ removed = {}
    /\ next_id = 0
    /\ indexes = <<>> /\ snapshot = <<>> /\ persistence_path = FALSE
    /\ rw_lock = <<>> /\ index_lock = <<>> /\ pc = <<>> /\ calls = 0
    /\ history = <<>>
    /\ IdleIdx

demoIdle == <<indexes, snapshot, persistence_path, rw_lock, index_lock, pc, calls,
              history, idxVars>>

\* self.demos[demo_id][field] = value, when the demo is still in self.demos (a
\* deleted demo's dict is no longer reachable through the service)
SetDemo(demos, d, status, step, error, completed) ==
    IF d \in DOMAIN demos
    THEN [demos EXCEPT ![d] = [status |-> status, step |-> step, error |-> error,
                               completed_at |-> completed]]
    ELSE demos

\* start_cohere_demo, and the background task the API schedules for it
StartDemo(d) ==
    /\ d \notin DOMAIN data \cup removed
    /\ data' = Put(data, d, NewDemo)
    /\ last' = DemoOutcome("start_cohere_demo", d, FALSE, FALSE)
    /\ next_id' = next_id + 1
    /\ UNCHANGED <<frame, removed, demoIdle>>

\* run_demo_async enters _run_demo_sync: lines 279-286
RunBegin(d) ==
    /\ d \in DOMAIN data \cup removed
    /\ frame[d].pc = "idle"
    /\ IF d \notin DOMAIN data
       THEN /\ frame' = [frame EXCEPT ![d] = [@ EXCEPT !.pc = "caught", !.raised = TRUE,
                                                     !.in_flight = TRUE,
                                                     !.error = Some("Demo not found")]]
            /\ UNCHANGED data
       ELSE /\ data' = [data EXCEPT ![d].status = "running"]
            /\ frame' = [frame EXCEPT ![d].pc = "steps"]
    /\ UNCHANGED <<last, removed, next_id, demoIdle>>

\* one step of the try block: _update_progress, then a call of another service
\* that returns or raises
RunStep(d, ok, error) ==
    /\ frame[d].pc = "steps"
    /\ frame[d].steps < MaxSteps
    /\ data' = IF d \in DOMAIN data
               THEN [data EXCEPT ![d].step = StepText(frame[d].steps + 1)]
               ELSE data
    /\ frame' = IF ok
                THEN [frame EXCEPT ![d].steps = @ + 1]
                ELSE [frame EXCEPT ![d] = [@ EXCEPT !.pc = "failed", !.raised = TRUE,
                                                   !.in_flight = TRUE,
                                                   !.error = Some(error)]]
    /\ UNCHANGED <<last, removed, next_id, demoIdle>>

\* the end of the try block: lines 435-457
RunComplete(d) ==
    /\ frame[d].pc = "steps"
    /\ frame[d].steps = MaxSteps
    /\ data' = SetDemo(data, d, "completed", <<"Completed">>, None, TRUE)
    /\ frame' = [frame EXCEPT ![d].pc = "done"]
    /\ UNCHANGED <<last, removed, next_id, demoIdle>>

\* RunFailed leaving progress["step"] as it is
RunFailedKeepStep(d) ==
    /\ frame[d].pc = "failed"
    /\ data' = IF d \in DOMAIN data
               THEN SetDemo(data, d, "failed", data[d].step, frame[d].error, TRUE)
               ELSE data
    /\ frame' = [frame EXCEPT ![d].pc = "caught"]
    /\ UNCHANGED <<last, removed, next_id, demoIdle>>

\* the except block of _run_demo_sync, lines 459-467, which raises again
RunFailed(d) ==
    /\ frame[d].pc = "failed"
    /\ data' = SetDemo(data, d, "failed", FailedStep(frame[d].error[1]),
                       frame[d].error, TRUE)
    /\ frame' = [frame EXCEPT ![d].pc = "caught"]
    /\ UNCHANGED <<last, removed, next_id, demoIdle>>

\* the except block of run_demo_async, lines 257-264
RunCaught(d) ==
    /\ frame[d].pc = "caught"
    /\ data' = IF d \in DOMAIN data
               THEN [data EXCEPT ![d].status = "failed", ![d].error = frame[d].error,
                                 ![d].completed_at = TRUE]
               ELSE data
    /\ frame' = [frame EXCEPT ![d].pc = "done", ![d].in_flight = FALSE]
    /\ UNCHANGED <<last, removed, next_id, demoIdle>>

\* get_demo_status(demo_id)
GetDemoStatus(d) ==
    /\ last' = IF d \notin DOMAIN data
               THEN DemoOutcome("get_demo_status", d, TRUE, FALSE)
               ELSE [DemoOutcome("get_demo_status", d, FALSE,
                                 frame[d].pc = "done" /\ frame[d].raised)
                     EXCEPT !.status = data[d].status, !.step = data[d].step]
    /\ UNCHANGED <<data, frame, removed, next_id, demoIdle>>

\* delete_demo(demo_id)
DeleteDemo(d) ==
    /\ IF d \notin DOMAIN data
       THEN /\ last' = DemoOutcome("delete_demo", d, TRUE, FALSE)
            /\ UNCHANGED <<data, removed>>
       ELSE /\ data' = Del(data, d)
            /\ removed' = removed \cup {d}
            /\ last' = DemoOutcome("delete_demo", d, FALSE, FALSE)
    /\ UNCHANGED <<frame, next_id, demoIdle>>

NextDemo ==
    \/ \E d \in DemoIds : StartDemo(d)
    \/ \E d \in DemoIds : RunBegin(d)
    \/ \E d \in DemoIds, ok \in BOOLEAN, error \in DemoErrors : RunStep(d, ok, error)
    \/ \E d \in DemoIds : RunComplete(d)
    \/ \E d \in DemoIds : RunFailed(d)
    \/ \E d \in DemoIds : RunCaught(d)
    \/ \E d \in DemoIds : GetDemoStatus(d)
    \/ \E d \in DemoIds : DeleteDemo(d)

SpecDemo == InitDemo /\ [][NextDemo]_vars

-----------------------------------------------------------------------------
(* SpecConcFair: the threads of SpecConc, appending one chunk at a time,     *)
(* with a scheduler that lets every thread inside a call take its next step  *)
(* in the end.  A thread blocked in RLock.acquire() goes on once the lock    *)
(* stays free; callers need not call again.  The library starts with the     *)
(* linear index of create_library or with an LSH index of build_index.       *)

\* the indexes the library can have before the threads start
ConcIndexes ==
    {ConcIndex} \cup
    {build(index, planes).index :
        index \in {add_chunks(create_index("lsh", p[1], p[2]), AllChunks(ConcLibrary))
                      : p \in StoreLSHParams},
        planes \in PlaneSeqs(2, 1)}

InitConcFair ==
    /\ data = Put(EmptyDict, "L1", ConcLibrary)
    /\ indexes \in {Put(EmptyDict, "L1", index) : index \in ConcIndexes}
    /\ snapshot = EmptyDict
    /\ persistence_path = FALSE
    /\ last = Outcome("init", "", "None", FALSE)
    /\ removed = {}
    /\ next_id = 0
    /\ rw_lock = Free
    /\ index_lock = Free
    /\ pc = [t \in Threads |-> "idle"]
    /\ frame = [t \in Threads |-> NoFrame]
    /\ calls = 0
    /\ history = <<>>
    /\ IdleIdx

\* the steps of a thread inside a call
ThreadSteps(t) ==
    \/ AcquireRW(t)
    \/ Find(t)
    \/ Replace(t)
    \/ AcquireIX(t)
    \/ Reset(t)
    \/ AddChunk(t)
    \/ Build(t)
    \/ Compute(t)
    \/ ReleaseIX(t)
    \/ PersistAndReturn(t)
    \/ ReleaseRW(t)

\* calls the threads make in one run under the fair scheduler
MaxFairCalls == 2

NextConcFair ==
    \E t \in Threads :
        \/ /\ calls < MaxFairCalls
           /\ \/ \E chunks \in NewChunkLists(1, 1, ConcVectors) :
                    Call(t, "add_chunks_to_document", "D1", chunks, <<>>, 0)
              \/ Call(t, "delete_document", "D1", <<>>, <<>>, 0)
              \/ Call(t, "build_index", "", <<>>, <<>>, 0)
              \/ \E q \in ConcQueries, k \in ConcKs : Call(t, "search", "", <<>>, q, k)
        \/ ThreadSteps(t)

SpecConcFair ==
    InitConcFair /\ [][NextConcFair]_vars /\ \A t \in Threads : WF_vars(ThreadSteps(t))

-----------------------------------------------------------------------------
(* SpecLib: a store with a persistence path, holding the library L1, with    *)
(* every mutating operation of the store, update_library included, and       *)
(* search; calls may name a library or a document the store does not hold.   *)

\* the fields update_library is called with: one it sets and the model does
\* not hold, one it skips, and the document list
LibraryFields == {"name", "id", "documents"}

\* the document lists a caller sets as a library's documents
NewDocumentLists ==
    {<<>>} \cup
    {<<Document(d, chunks)>> : d \in DocIds \ DocsInUse,
                               chunks \in NewChunkLists(1, 1, StoreVectors)}

\* update_library(library_id, {field: value}): setattr for every field of the
\* library but id and created_at, then the snapshot; the index is left alone
UpdateLibrary(l, field, value) ==
    /\ IF l \notin DOMAIN data
       THEN /\ last' = Outcome("update_library", l, "None", FALSE)
            /\ UNCHANGED <<data, snapshot, next_id>>
       ELSE /\ data' = IF field = "documents"
                       THEN [data EXCEPT ![l].documents = value]
                       ELSE data
            /\ next_id' = IF field = "documents"
                          THEN next_id + Len(Flatten([i \in 1..Len(value) |->
                                                         value[i].chunks]))
                          ELSE next_id
            /\ snapshot' = Persist(data')
            /\ last' = Outcome("update_library", l, "library", FALSE)
    /\ UNCHANGED <<persistence_path, indexes, removed, idxVars, concVars>>

InitLib == InitStore(TRUE)

NextLib ==
    \/ CreateLibrary("L1")
    \/ DeleteLibrary("L1")
    \/ \E field \in LibraryFields \ {"documents"} : UpdateLibrary("L1", field, <<>>)
    \/ \E value \in NewDocumentLists : UpdateLibrary("L1", "documents", value)
    \/ \E chunks \in NewChunkLists(0, 1, StoreVectors) :
          DocIds # DocsInUse /\ CreateDocument("L1", NewDocId, chunks)
    \/ \E d \in DocIds, chunks \in NewChunkLists(0, 1, StoreVectors) :
          UpdateDocument("L1", d, TRUE, chunks)
    \/ \E d \in DocIds : UpdateDocument("L1", d, FALSE, <<>>)
    \/ \E d \in DocIds : DeleteDocument("L1", d)
    \/ \E d \in DocIds, chunks \in NewChunkLists(1, 1, StoreVectors) :
          AddChunksToDocument("L1", d, chunks)
    \/ \E t \in {"linear", "kdtree"} : BuildIndex("L1", t, <<0, 0>>)
    \/ \E p \in StoreLSHParams : BuildIndex("L1", "lsh", p)
    \/ \E q \in StoreQueries : Search("L1", q, 1, "stable")

SpecLib == InitLib /\ [][NextLib]_vars

-----------------------------------------------------------------------------
(* SpecStats: threads calling LibraryService.get_library_stats on the        *)
(* library L1 while others call create_document, add_chunks_to_document and  *)
(* delete_document of the store.  A store call holds _rw_lock from start to  *)
(* end and is one step; get_library_stats makes two store calls and then     *)
(* reads the library it was handed without any lock, one read per step.      *)

\* len(library.documents) and the chunks of all documents of a library
Counts(library) == <<Len(library.documents), Len(AllChunks(library))>>

\* the locals of get_library_stats; at is the number of states the library
\* had had when the call began, i the position of the generator in
\* library.documents
NoStatsFrame == [op |-> "none", at |-> 0, total_documents |-> 0,
                 total_chunks |-> 0, i |-> 0]

\* what get_library_stats returned, with the states the library had between
\* the start and the end of the call
StatsOutcome(op, ret, f, states) ==
    [op |-> op, ret |-> ret, total_documents |-> f.total_documents,
     total_chunks |-> f.total_chunks, states |-> states]

InitStats ==
    /\ data = Put(EmptyDict, "L1", ConcLibrary)
    /\ indexes = Put(EmptyDict, "L1", ConcIndex)
    /\ snapshot = EmptyDict
    /\ persistence_path = FALSE
    /\ last = StatsOutcome("init", "None", NoStatsFrame, {})
    /\ removed = {}
    /\ next_id = 0
    /\ rw_lock = <<>>
    /\ index_lock = <<>>
    /\ pc = [t \in Threads |-> "idle"]
    /\ frame = [t \in Threads |-> NoStatsFrame]
    /\ calls = 0
    /\ history = <<Counts(ConcLibrary)>>
    /\ IdleIdx

\* a store write of a thread, from _acquire_write_lock to _release_write_lock:
\* the library and its index afterwards
StatsWrite(t, op, library, index) ==
    /\ pc[t] = "idle"
    /\ calls < MaxCalls
    /\ calls' = calls + 1
    /\ data' = [data EXCEPT !["L1"] = library]
    /\ indexes' = [indexes EXCEPT !["L1"] = index]
    /\ history' = Append(history, Counts(library))
    /\ last' = StatsOutcome(op, "written", NoStatsFrame, {})
    /\ UNCHANGED <<snapshot, persistence_path, removed, rw_lock, index_lock, pc,
                   frame, idxVars>>

\* create_document("L1", document)
StatsCreateDocument(t, chunks) ==
    /\ DocIds # DocsInUse
    /\ StatsWrite(t, "create_document",
                  [data["L1"] EXCEPT !.documents = Append(@, Document(NewDocId, chunks))],
                  AddAndBuild(indexes["L1"], chunks, <<>>).index)
    /\ next_id' = next_id + Len(chunks)

\* add_chunks_to_document("L1", d, chunks) on a document of the library
StatsAddChunks(t, d, chunks) ==
    /\ DocPos(data["L1"], d) # 0
    /\ StatsWrite(t, "add_chunks_to_document",
                  [data["L1"] EXCEPT !.documents[DocPos(data["L1"], d)].chunks =
                                        @ \o chunks],
                  AddAndBuild(indexes["L1"], chunks, <<>>).index)
    /\ next_id' = next_id + Len(chunks)

\* delete_document("L1", d) on a document of the library
StatsDeleteDocument(t, d) ==
    /\ DocPos(data["L1"], d) # 0
    /\ LET library == [data["L1"] EXCEPT !.documents = RemoveAt(@, DocPos(data["L1"], d))]
       IN  StatsWrite(t, "delete_document", library,
                      Rebuild(indexes["L1"], library, <<>>).index)
    /\ UNCHANGED next_id

\* a step of get_library_stats that changes the thread's locals only
StatsStep(t, from, to, f) ==
    /\ pc[t] = from
    /\ pc' = [pc EXCEPT ![t] = to]
    /\ frame' = [frame EXCEPT ![t] = f]
    /\ UNCHANGED <<data, indexes, snapshot, persistence_path, last, removed, next_id,
                   rw_lock, index_lock, calls, history, idxVars>>

\* a thread calls get_library_stats("L1")
StatsCall(t) ==
    /\ calls < MaxCalls
    /\ calls' = calls + 1
    /\ pc[t] = "idle"
    /\ pc' = [pc EXCEPT ![t] = "get_library"]
    /\ frame' = [frame EXCEPT ![t] = [NoStatsFrame EXCEPT !.op = "get_library_stats",
                                                          !.at = Len(history)]]
    /\ UNCHANGED <<data, indexes, snapshot, persistence_path, last, removed, next_id,
                   rw_lock, index_lock, history, idxVars>>

\* "library = self.get_library(library_id)": the store hands out the library
\* object it holds, not a copy
StatsGetLibrary(t) == StatsStep(t, "get_library", "get_index_info", frame[t])

\* "index_info = self.get_index_info(library_id)"
StatsGetIndexInfo(t) == StatsStep(t, "get_index_info", "count_documents", frame[t])

\* "total_documents": len(library.documents)
StatsCountDocuments(t) ==
    StatsStep(t, "count_documents", "count_chunks",
              [frame[t] EXCEPT !.total_documents = Len(data["L1"].documents)])

\* "total_chunks": one round of sum(len(doc.chunks) for doc in
\* library.documents); the list iterator goes by position and stops when the
\* position is past the end of the list as it is then
StatsCountChunks(t) ==
    LET f == frame[t]
        docs == data["L1"].documents
    IN  IF f.i < Len(docs)
        THEN StatsStep(t, "count_chunks", "count_chunks",
                       [f EXCEPT !.i = @ + 1,
                                 !.total_chunks = @ + Len(docs[f.i + 1].chunks)])
        ELSE StatsStep(t, "count_chunks", "return", f)

\* get_library_stats returns the dictionary
StatsReturn(t) ==
    /\ pc[t] = "return"
    /\ pc' = [pc EXCEPT ![t] = "idle"]
    /\ last' = StatsOutcome("get_library_stats", "stats", frame[t],
                            {history[n] : n \in frame[t].at..Len(history)})
    /\ frame' = [frame EXCEPT ![t] = NoStatsFrame]
    /\ UNCHANGED <<data, indexes, snapshot, persistence_path, removed, next_id,
                   rw_lock, index_lock, calls, history, idxVars>>

NextStats ==
    \E t \in Threads :
        \/ \E chunks \in NewChunkLists(0, 1, RWVectors) : StatsCreateDocument(t, chunks)
        \/ \E d \in DocIds, chunks \in NewChunkLists(1, 1, RWVectors) :
              StatsAddChunks(t, d, chunks)
        \/ \E d \in DocIds : StatsDeleteDocument(t, d)
        \/ StatsCall(t)
        \/ StatsGetLibrary(t)
        \/ StatsGetIndexInfo(t)
        \/ StatsCountDocuments(t)
        \/ StatsCountChunks(t)
        \/ StatsReturn(t)

SpecStats == InitStats /\ [][NextStats]_vars


-----------------------------------------------------------------------------
(* SpecShare: several DemoService objects over one demo file.  The API      *)
(* builds a new DemoService for every request (get_demo_service), and each   *)
(* loads the file in __init__ and writes the whole of its own self.demos in  *)
(* _persist_demos_to_disk.  data[s] is self.demos of service s (demo id to   *)
(* status), snapshot the content of data/demos.json, pc[s] the request s     *)
(* serves, frame[d] the run of demo d, history the order in which services  *)
(* were built and demos registered.                                          *)

ServiceIds == {"s1", "s2", "s3"}

ShareOutcome(op, service, demo, raised, demos) ==
    [op |-> op, service |-> service, demo |-> demo, raised |-> raised,
     demos |-> demos]

\* a run of the background task: where it is and the service that runs it
NoShareRun == [pc |-> "idle", service |-> ""]

InitShare ==
    /\ data = EmptyDict
    /\ snapshot = EmptyDict
    /\ persistence_path = TRUE
    /\ pc = [s \in ServiceIds |-> "absent"]
    /\ frame = [d \in DemoIds |-> NoShareRun]
    /\ history = <<>>
    /\ removed = {}
    /\ last = ShareOutcome("none", "", "", FALSE, {})
    /\ next_id = 0
    /\ indexes = <<>> /\ rw_lock = <<>> /\ index_lock = <<>> /\ calls = 0
    /\ IdleIdx

shareIdle == <<indexes, persistence_path, rw_lock, index_lock, calls, next_id,
               idxVars>>

\* get_demo_service(): DemoService() starts with self.demos = {} and
\* _load_demos_from_disk copies every demo of the file into it
NewDemoService(s) ==
    /\ pc[s] = "absent"
    /\ data' = Put(data, s, snapshot)
    /\ pc' = [pc EXCEPT ![s] = "ready"]
    /\ history' = Append(history, s)
    /\ UNCHANGED <<snapshot, frame, removed, last, shareIdle>>

\* start_cohere_demo / start_quick_demo on service s: a new uuid4 id is put in
\* self.demos and self.demos is written to the file; the API then schedules
\* run_demo_async of the same service
ShareStartDemo(s, d) ==
    /\ pc[s] = "ready"
    /\ d \notin Range(history)
    /\ data' = [data EXCEPT ![s] = Put(@, d, "pending")]
    /\ snapshot' = data'[s]
    /\ pc' = [pc EXCEPT ![s] = "used"]
    /\ frame' = [frame EXCEPT ![d] = [pc |-> "scheduled", service |-> s]]
    /\ history' = Append(history, d)
    /\ last' = ShareOutcome("start_cohere_demo", s, d, FALSE, {})
    /\ UNCHANGED <<removed, shareIdle>>

\* _run_demo_sync enters: status RUNNING in the service's own dict, no write
\* of the file (lines 279-286)
ShareRunBegin(d) ==
    /\ frame[d].pc = "scheduled"
    /\ data' = [data EXCEPT ![frame[d].service][d] = "running"]
    /\ frame' = [frame EXCEPT ![d].pc = "running"]
    /\ UNCHANGED <<snapshot, pc, history, removed, last, shareIdle>>

\* the run ends, COMPLETED (lines 435-453) or FAILED (lines 459-467), and the
\* service writes its self.demos to the file
ShareRunEnd(d, ok) ==
    /\ frame[d].pc = "running"
    /\ data' = [data EXCEPT ![frame[d].service][d] =
                                 IF ok THEN "completed" ELSE "failed"]
    /\ snapshot' = data'[frame[d].service]
    /\ frame' = [frame EXCEPT ![d].pc = "done"]
    /\ UNCHANGED <<pc, history, removed, last, shareIdle>>

\* delete_demo(demo_id) on service s
ShareDeleteDemo(s, d) ==
    /\ pc[s] = "ready"
    /\ pc' = [pc EXCEPT ![s] = "used"]
    /\ IF d \notin DOMAIN data[s]
       THEN /\ last' = ShareOutcome("delete_demo", s, d, TRUE, {})
            /\ UNCHANGED <<data, snapshot, removed>>
       ELSE /\ data' = [data EXCEPT ![s] = Del(@, d)]
            /\ snapshot' = data'[s]
            /\ removed' = removed \cup {d}
            /\ last' = ShareOutcome("delete_demo", s, d, FALSE, {})
    /\ UNCHANGED <<frame, history, shareIdle>>

\* list_all_demos() on service s
ShareListAllDemos(s) ==
    /\ pc[s] = "ready"
    /\ pc' = [pc EXCEPT ![s] = "used"]
    /\ last' = ShareOutcome("list_all_demos", s, "", FALSE, DOMAIN data[s])
    /\ UNCHANGED <<data, snapshot, frame, history, removed, shareIdle>>

\* get_demo_status(demo_id) on service s: ValueError for an id not in self.demos
ShareGetDemoStatus(s, d) ==
    /\ pc[s] = "ready"
    /\ pc' = [pc EXCEPT ![s] = "used"]
    /\ last' = ShareOutcome("get_demo_status", s, d, d \notin DOMAIN data[s],
                            DOMAIN data[s])
    /\ UNCHANGED <<data, snapshot, frame, history, removed, shareIdle>>

NextShare ==
    \/ \E s \in ServiceIds : NewDemoService(s)
    \/ \E s \in ServiceIds, d \in DemoIds : ShareStartDemo(s, d)
    \/ \E d \in DemoIds : ShareRunBegin(d)
    \/ \E d \in DemoIds, ok \in BOOLEAN : ShareRunEnd(d, ok)
    \/ \E s \in ServiceIds, d \in DemoIds : ShareDeleteDemo(s, d)
    \/ \E s \in ServiceIds : ShareListAllDemos(s)
    \/ \E s \in ServiceIds, d \in DemoIds : ShareGetDemoStatus(s, d)

SpecShare == InitShare /\ [][NextShare]_vars

-----------------------------------------------------------------------------
(* Claims about one index (checked under SpecIdx) *)

Searched == out.op = "search"
Answered == Searched /\ ~out.result.raised

\* the index is built and its embeddings all have the query's dimension
WellDimensioned ==
    /\ ix.is_built
    /\ \A i \in 1..Len(ix.chunks) : Len(ix.chunks[i].embedding) = Len(out.query)

NonIncreasing(scores) ==
    \A i, j \in 1..Len(scores) : i < j => ScoreLe(scores[j], scores[i])

\* C7: for each index type, a search of a built index with a query of the
\* stored dimension returns a chunk list and a score list of one length, at
\* most k, the i-th score being the cosine similarity of the query with the
\* i-th chunk, and the scores never increase along the list.
C7_SearchShape ==
    /\ Searched /\ WellDimensioned => ~out.result.raised
    /\ Answered =>
          LET r == out.result
          IN  /\ Len(r.chunks) = Len(r.scores)
              /\ Len(r.chunks) <= out.k
              /\ \A i \in 1..Len(r.chunks) :
                    /\ Len(r.chunks[i].embedding) = Len(out.query)
                    /\ ScoreEq(r.scores[i],
                               CosineSimilarity(out.query, r.chunks[i].embedding))
              /\ NonIncreasing(r.scores)

\* an LSH search that returned two chunks, the second scoring strictly lower
C7_Witness ==
    /\ Answered /\ ix.type = "lsh" /\ Len(ix.chunks) >= 2
    /\ Len(out.result.chunks) = 2
    /\ ScoreLt(out.result.scores[2], out.result.scores[1])

\* C8: a search of a built linear index holding n chunks returns exactly
\* min(k, n) different chunks of the working set, and no chunk left out has a
\* higher cosine similarity to the query than a chunk returned.
C8_LinearExactTopK ==
    Searched /\ ix.type = "linear" /\ WellDimensioned =>
        LET r == out.result
            n == Len(ix.chunks)
            ids == {r.chunks[i].id : i \in 1..Len(r.chunks)}
        IN  /\ ~r.raised
            /\ Len(r.chunks) = Min(out.k, n)
            /\ Range(r.chunks) \subseteq Range(ix.chunks)
            /\ Cardinality(ids) = Len(r.chunks)
            /\ \A c \in Range(ix.chunks), i \in 1..Len(r.chunks) :
                  c.id \notin ids =>
                      ScoreLe(CosineSimilarity(out.query, c.embedding), r.scores[i])

\* a linear search with k below n that had to leave out a lower-scoring chunk
\* inserted before the one it returned
C8_Witness ==
    /\ Answered /\ ix.type = "linear" /\ Len(ix.chunks) = 3 /\ out.k = 1
    /\ out.result.chunks[1].id = 3
    /\ \A i \in 1..2 : ScoreLt(CosineSimilarity(out.query, ix.chunks[i].embedding),
                               out.result.scores[1])

\* C9 (as claimed): two chunks of a linear search result with equal scores
\* appear in the order of their insertion, the earlier-inserted first.
C9_TiesInInsertionOrder ==
    Answered /\ ix.type = "linear" =>
        \A i, j \in 1..Len(out.result.chunks) :
            i < j /\ ScoreEq(out.result.scores[i], out.result.scores[j])
                => out.result.chunks[i].id < out.result.chunks[j].id

-----------------------------------------------------------------------------
(* Claims about the store (checked under Spec and SpecDisk) *)

\* the last call was op on library l and returned ret
ReturnedFrom(op, l, ret) ==
    last.op = op /\ last.lib = l /\ ~last.raised /\ last.ret = ret

\* some chunk of the list differs in embedding length from a chunk of the library
Mismatched(library, chunks) ==
    \E c \in Range(AllChunks(library)), i \in 1..Len(chunks) :
        Len(chunks[i].embedding) # Len(c.embedding)

\* C2 (as claimed): add_chunks_to_document called with a chunk whose embedding
\* length differs from that of the chunks already in the library raises, and
\* leaves the library's documents, their chunks and the working set of the
\* library's index as they were.
C2_MismatchedChunkRejected ==
    [][\A l \in DOMAIN data, d \in DocIds,
          chunks \in NewChunkLists(1, 2, StoreVectors) :
            AddChunksToDocument(l, d, chunks) /\ DocPos(data[l], d) # 0
            /\ Mismatched(data[l], chunks)
                => /\ last'.raised
                   /\ data' = data
                   /\ indexes'[l].chunks = indexes[l].chunks]_vars

\* C3 (as claimed): a search of a library that holds no chunks returns the
\* empty result ([], []) and does not raise.
C3_EmptyLibrarySearchesEmpty ==
    \A l \in DOMAIN data :
        last.op = "search" /\ last.lib = l /\ AllChunks(data[l]) = <<>>
            => last.result = Returned(<<>>, <<>>)

\* C4: the library ids that have an index object are the library ids in the
\* store, after every store operation and after loading a snapshot.
C4_IndexPerLibrary == DOMAIN indexes = DOMAIN data

\* delete_library has returned True for one of two libraries, the other one
\* holds chunks
C4_Witness ==
    /\ ReturnedFrom("delete_library", "L1", "True")
    /\ DOMAIN indexes = {"L2"}
    /\ indexes["L2"].chunks # <<>>

\* C5: a search returns no chunk of a document that delete_document removed
\* with return value True, whatever the query, k and the index type.
C5_DeletedChunksGone ==
    last.op = "search" /\ ~last.result.raised
        => ChunkIds(last.result.chunks) \cap removed = {}

\* a kd-tree search that returned the chunk of the document left after
\* delete_document removed the other document and its chunk
C5_Witness ==
    /\ last.op = "search" /\ ~last.result.raised
    /\ removed # {}
    /\ "L1" \in DOMAIN indexes /\ indexes["L1"].type = "kdtree"
    /\ last.result.chunks # <<>>

\* the search follows an add_chunks_to_document on its library that returned
\* True, with k at least the number of chunks now in the library
SearchAfterAdd(l) ==
    /\ l \in DOMAIN data /\ l \in DOMAIN indexes
    /\ last.op = "search" /\ last.lib = l /\ last.after # {}
    /\ last.k >= Len(AllChunks(data[l]))

\* the search returned every chunk of the library
ReturnedAll(l) ==
    /\ ~last.result.raised
    /\ ChunkIds(last.result.chunks) = ChunkIds(AllChunks(data[l]))

-----------------------------------------------------------------------------
(* Claims about concurrent calls (checked under SpecConc) *)

\* the documents of L1 after the first n writes of history, run one after the
\* other: a sequence of [id, ids of its chunks]
RECURSIVE ReplayDocs(_)
ReplayDocs(n) ==
    IF n = 0
    THEN [i \in 1..Len(ConcLibrary.documents) |->
             [id  |-> ConcLibrary.documents[i].id,
              ids |-> [j \in 1..Len(ConcLibrary.documents[i].chunks) |->
                          ConcLibrary.documents[i].chunks[j].id]]]
    ELSE LET docs == ReplayDocs(n - 1)
             w == history[n]
             hits == {i \in 1..Len(docs) : docs[i].id = w.doc}
         IN  IF hits = {} THEN docs
             ELSE LET i == CHOOSE i \in hits : TRUE
                  IN  CASE w.op = "add_chunks_to_document" ->
                             [docs EXCEPT ![i].ids = @ \o w.ids]
                        [] w.op = "delete_document" -> RemoveAt(docs, i)
                        [] OTHER -> docs

\* whether the n-th write finds its document
ReplayFinds(n) == \E i \in 1..Len(ReplayDocs(n - 1)) : ReplayDocs(n - 1)[i].id = history[n].doc

\* the ids of the index working set after the first n writes of history, run
\* one after the other
RECURSIVE ReplayWorkingSet(_)
ReplayWorkingSet(n) ==
    IF n = 0 THEN [i \in 1..Len(AllChunks(ConcLibrary)) |-> AllChunks(ConcLibrary)[i].id]
    ELSE LET w == history[n]
             docs == ReplayDocs(n)
             all == Flatten([i \in 1..Len(docs) |-> docs[i].ids])
         IN  CASE w.op = "build_index" /\ ~w.raised -> all
               [] w.op = "delete_document" /\ ReplayFinds(n) -> all
               [] w.op = "add_chunks_to_document" /\ ReplayFinds(n) ->
                     ReplayWorkingSet(n - 1) \o w.ids
               [] OTHER -> ReplayWorkingSet(n - 1)

\* thread s is in a search that has computed its result
Computed(s) == frame[s].op = "search" /\ frame[s].computed

\* the chunk id sets of the add_chunks_to_document calls made so far or running
AddedSets ==
    {Range(history[i].ids) : i \in {j \in 1..Len(history) :
                                       history[j].op = "add_chunks_to_document"}}
    \cup {ChunkIds(frame[t].chunks) : t \in {u \in Threads :
                                       frame[u].op = "add_chunks_to_document"}}

\* C1: whatever the interleaving of add_chunks_to_document(L, D, C) with a
\* search of L, the search computes on an index whose working set holds no
\* chunk of C, or on a built index whose working set holds all of C.
C1_AddSeenWhollyOrNot ==
    \A s \in Threads : Computed(s) =>
        \A C \in AddedSets :
            \/ C \cap Range(frame[s].seen) = {}
            \/ C \subseteq Range(frame[s].seen) /\ frame[s].seen_built

\* a search called while an add_chunks_to_document of two chunks held the store
\* lock has computed on a working set holding both
C1_Witness ==
    \E s \in Threads :
        /\ Computed(s)
        /\ \E i \in frame[s].open :
              /\ history[i].op = "add_chunks_to_document"
              /\ Len(history[i].ids) = 2
              /\ Range(history[i].ids) \subseteq Range(frame[s].seen)

\* C10: a search computes on the index working set that the writes which got
\* the store lock before it leave when run one after the other in that order,
\* and every write that had returned when the search was called is among
\* them; with the store lock free the documents and the index working set are
\* those of all writes run in the order in which they got the lock, and each
\* write returned what it returns in that order.
C10_WritesInLockOrder ==
    /\ \A s \in Threads : Computed(s) =>
          /\ frame[s].before \subseteq 1..frame[s].at
          /\ frame[s].seen = ReplayWorkingSet(frame[s].at)
    /\ rw_lock = Free =>
          /\ [i \in 1..Len(indexes["L1"].chunks) |-> indexes["L1"].chunks[i].id]
                = ReplayWorkingSet(Len(history))
          /\ [i \in 1..Len(data["L1"].documents) |->
                 [id  |-> data["L1"].documents[i].id,
                  ids |-> [j \in 1..Len(data["L1"].documents[i].chunks) |->
                              data["L1"].documents[i].chunks[j].id]]]
                = ReplayDocs(Len(history))
    /\ \A i \in 1..Len(history) :
          history[i].returned /\ ~history[i].raised
              => history[i].ret = IF history[i].op = "build_index" \/ ReplayFinds(i)
                                  THEN "True" ELSE "False"

\* a search called after another thread's add_chunks_to_document had returned
\* True, and after a second write got the lock, has computed on a working set
\* holding the appended chunks
C10_Witness ==
    \E s \in Threads :
        /\ Computed(s)
        /\ frame[s].at >= 2
        /\ \E i \in frame[s].before :
              /\ history[i].op = "add_chunks_to_document"
              /\ history[i].t # s
              /\ history[i].ret = "True"
              /\ history[i].ids # <<>>
              /\ Range(history[i].ids) \subseteq Range(frame[s].seen)


-----------------------------------------------------------------------------
(* Claims about the document service (checked under SpecSvc) *)

\* C11: whatever way concurrent DocumentService.create_document and
\* update_document calls on one library interleave, no two documents of the
\* library have the same trimmed name.
C11_NamesUnique ==
    \A l \in DOMAIN data :
        \A i, j \in 1..Len(data[l].documents) :
            i # j => Strip(data[l].documents[i].name) # Strip(data[l].documents[j].name)

-----------------------------------------------------------------------------
(* Claims about readers and writers (checked under SpecRW) *)

\* the threads inside a critical section of the store lock
Inside(t) == pc[t] \notin {"idle", "acquire_rw"}
Waiting(t) == pc[t] = "acquire_rw" /\ ~CanAcquire(rw_lock, t)

\* C12: read operations of different threads can be inside their critical
\* sections together (searches when they are on different libraries); only
\* a writer keeps another operation out.  So a thread kept waiting at the
\* entry of a read is kept waiting by a writer.
C12_OnlyWritersExclude ==
    \A t \in Threads :
        Waiting(t) /\ frame[t].op \in ReadOps
        => \E w \in Threads : Inside(w) /\ frame[w].op \notin ReadOps

\* C13: while a thread is in the index step or the snapshot step of a write
\* on a library, a read of another library need not wait for it.
C13_ReadsOfOtherLibraryPass ==
    \A t, w \in Threads :
        /\ pc[w] \in {"index", "persist"}
        /\ frame[w].op \notin ReadOps
        /\ pc[t] = "acquire_rw"
        /\ frame[t].op \in ReadOps
        /\ frame[t].lib # frame[w].lib
        => CanAcquire(rw_lock, t)

\* C15: a call whose snapshot write failed raises nothing and returns its
\* success value, what it did to the documents and to the index is there
\* for later reads and searches, and the thread holds no lock after it.
C15_PersistFailureNotAnError ==
    /\ \A t \in Threads :
          frame[t].persist \in {"open_failed", "dump_failed"}
          => /\ ~frame[t].raised
             /\ frame[t].ret = "True"
    /\ last.persist \in {"open_failed", "dump_failed"}
       => /\ ~last.raised
          /\ last.ret = "True"
          /\ ChunkIds(last.chunks) \subseteq ChunkIds(AllChunks(data[last.lib]))
          /\ ChunkIds(last.chunks) \subseteq ChunkIds(indexes[last.lib].chunks)
          /\ indexes[last.lib].is_built
          /\ pc[last.thread] = "idle"
             => /\ rw_lock.owner # last.thread
                /\ \A l \in LibIds : index_lock[l].owner # last.thread
          /\ \A t \in Threads :
                /\ frame[t].op = "search"
                /\ frame[t].lib = last.lib
                /\ frame[t].ret = "results"
                => ChunkIds(last.chunks) \subseteq ChunkIds(frame[t].chunks)

C15_Witness ==
    /\ last.persist = "dump_failed"
    /\ last.op = "add_chunks_to_document"
    /\ snapshot = Truncated
    /\ \E t \in Threads :
          /\ frame[t].op = "search"
          /\ frame[t].lib = last.lib
          /\ frame[t].ret = "results"
          /\ ChunkIds(last.chunks) \subseteq ChunkIds(frame[t].chunks)

-----------------------------------------------------------------------------
(* Claims about ids (checked under SpecIds) *)

\* C14: after any create_library and create_document calls no two documents
\* of one library share an id (libraries are kept under their ids, one each),
\* a create with an id already there being rejected.
C14_IdsUnique ==
    \A l \in DOMAIN data :
        \A i, j \in 1..Len(data[l].documents) :
            i # j => data[l].documents[i].id # data[l].documents[j].id

-----------------------------------------------------------------------------
(* Claims about the snapshot (checked under SpecSnap and SpecDisk) *)

\* C16: a store made from the snapshot of a populated store has the same
\* libraries with the same documents and chunks in the same order and the
\* same created_at and updated_at (as instants).
\* a store with every created_at and updated_at reduced to its instant, so
\* that a float and a datetime of the same instant count as the same
Instants(d) ==
    [l \in DOMAIN d |->
        [documents |-> [i \in 1..Len(d[l].documents) |->
                           [id |-> d[l].documents[i].id,
                            chunks |-> d[l].documents[i].chunks,
                            created_at |-> d[l].documents[i].created_at.at,
                            updated_at |-> d[l].documents[i].updated_at.at]],
         created_at |-> d[l].created_at.at,
         updated_at |-> d[l].updated_at.at]]

C16_SnapshotRoundTrip ==
    [][(\E tz \in TZOffsets : SnapRestart(tz)) => Instants(data') = Instants(data)]_vars


\* C17: after a store is made from a snapshot every library it loaded has a
\* built linear index whose working set is the chunks of the library's
\* documents, in their order, whatever index the library had before.
C17_LoadedIndexesLinear ==
    last.op = "load"
    => \A l \in DOMAIN data :
          /\ l \in DOMAIN indexes
          /\ indexes[l].type = "linear"
          /\ indexes[l].is_built
          /\ indexes[l].chunks = AllChunks(data[l])

C17_Witness ==
    /\ last.op = "load"
    /\ DOMAIN data = LibIds
    /\ \E l \in DOMAIN data : Len(AllChunks(data[l])) = MaxIds

-----------------------------------------------------------------------------
(* Claims about building (checked under SpecIdx) *)

\* the index answers every query as the index before the step did
SameAnswers ==
    \A q \in Queries, k \in 1..MaxK, ties \in TiePolicies :
        search(ix', q, k, ties) = search(ix, q, k, ties)

\* C18: building twice in a row is building once: a build() that follows a
\* build() with nothing in between leaves every answer as it was, for every
\* index type.
C18_BuildIdempotent ==
    [][IdxBuild /\ out.op = "build" => SameAnswers]_vars

\* C19: chunks added to a built index are not searchable before the next
\* build(): add_chunks leaves every answer as it was, for every index type.
C19_AddedChunksNotSearchable ==
    [][IdxAddChunks /\ ix.is_built => SameAnswers]_vars

\* C20: search on an index that build() was never called on (is_built is
\* never set back) raises "Index not built" and returns nothing, for each
\* index type, with or without chunks.
C20_UnbuiltSearchRaises ==
    Searched /\ ~ix.is_built
    => /\ out.result.raised
       /\ out.result.error = "Index not built"
       /\ out.result.chunks = <<>>
       /\ out.result.scores = <<>>

C20_Witness ==
    /\ Searched
    /\ ~ix.is_built
    /\ ix.type = "kdtree"
    /\ Len(ix.chunks) = MaxLen
    /\ out.result.raised

-----------------------------------------------------------------------------
(* Claims about the search service (SpecQuery)                                *)

\* the library ids a search_across_libraries call asked for: the ids of its
\* list, or every library of the store when it was given no list
Requested == IF last.given = None THEN DOMAIN data ELSE Range(last.given[1])

\* C21: search_across_libraries returns one entry per requested library id
\* (per library of the store when no list is given); the entry of a library
\* whose search fails is an empty result, and every other entry is what
\* search_similar_chunks returns for that library alone.
C21_OneEntryPerRequested ==
    last.op = "search_across" =>
        /\ DOMAIN last.results = Requested
        /\ \A l \in DOMAIN last.results :
             LET alone == SearchSimilarChunks(l, last.query, last.ties)
             IN  IF alone.raised
                 THEN /\ last.results[l].chunks = <<>>
                      /\ last.results[l].scores = <<>>
                      /\ last.results[l].total_found = 0
                      /\ ~last.results[l].raised
                 ELSE last.results[l] = alone

\* the same, an empty list counting as no list
RequestedOrAll ==
    IF last.given = None \/ last.given[1] = <<>> THEN DOMAIN data
    ELSE Range(last.given[1])

\* C21, amended: search_across_libraries returns one entry per library id of
\* a non-empty list, and one per library of the store when it is given no list
\* or an empty one; the entry of a library whose search fails is an empty
\* result, and every other entry is what search_similar_chunks returns for
\* that library alone.
C21_OneEntryPerSearched ==
    last.op = "search_across" =>
        /\ DOMAIN last.results = RequestedOrAll
        /\ \A l \in DOMAIN last.results :
             LET alone == SearchSimilarChunks(l, last.query, last.ties)
             IN  IF alone.raised
                 THEN /\ last.results[l].chunks = <<>>
                      /\ last.results[l].scores = <<>>
                      /\ last.results[l].total_found = 0
                      /\ ~last.results[l].raised
                 ELSE last.results[l] = alone

\* a search across two libraries, one failing and one with a chunk found
C21_Witness ==
    /\ last.op = "search_across"
    /\ \E l, m \in DOMAIN last.results :
         /\ SearchSimilarChunks(l, last.query, last.ties).raised
         /\ last.results[m].chunks # <<>>


\* what the last search_similar_chunks call returns without its filters
Unfiltered ==
    SearchSimilarChunks(last.lib, [last.query EXCEPT !.filters = <<>>], last.ties)

\* the positions of Unfiltered's chunks whose metadata satisfies every filter
\* of the last call, ascending
Survivors ==
    Kept([i \in 1..Len(Unfiltered.chunks) |->
             ChunkMatchesFilters(Unfiltered.chunks[i], last.query.filters)], 1)

\* C22: with filters, search_similar_chunks returns the subsequence of the
\* unfiltered k-NN result for the same query and k made of the chunks whose
\* metadata satisfies every filter, in the same order, each score with its
\* chunk; a chunk lacking a filter key never matches; total_found is the
\* number of survivors.
C22_FilteredSubsequence ==
    (last.op = "search" /\ last.query.filters # <<>> /\ ~Unfiltered.raised) =>
        /\ ~last.result.raised
        /\ last.result.chunks =
              [r \in 1..Len(Survivors) |-> Unfiltered.chunks[Survivors[r]]]
        /\ last.result.scores =
              [r \in 1..Len(Survivors) |-> Unfiltered.scores[Survivors[r]]]
        /\ last.result.total_found = Len(Survivors)
        /\ \A r \in 1..Len(last.result.chunks), i \in 1..Len(last.query.filters) :
             HasKey(last.result.chunks[r].metadata, last.query.filters[i].key)

\* the filters of the last call are comparisons (or raw values), and one of
\* them meets, on a chunk of the unfiltered result, a value it cannot be
\* ordered against
MeetsNonOrderable ==
    /\ \A i \in 1..Len(last.query.filters) :
         last.query.filters[i].operator \in {"", "gt", "gte", "lt", "lte"}
    /\ \E r \in 1..Len(Unfiltered.chunks), i \in 1..Len(last.query.filters) :
         LET f == last.query.filters[i]
             metadata == Unfiltered.chunks[r].metadata
         IN  /\ f.operator # ""
             /\ HasKey(metadata, f.key)
             /\ ~Orderable(metadata[f.key], f.value)

\* C23: a gt/gte/lt/lte filter on a chunk whose metadata value cannot be
\* ordered against the filter value is a non-match for that chunk: the search
\* completes without error and returns the other chunks that satisfy the
\* filters.
C23_NonOrderableIsNonMatch ==
    (last.op = "search" /\ ~Unfiltered.raised /\ MeetsNonOrderable) =>
        /\ ~last.result.raised
        /\ last.result.chunks =
              [r \in 1..Len(Survivors) |-> Unfiltered.chunks[Survivors[r]]]

\* C25: the index_type of the SearchResult of search_similar_chunks is the
\* type of the index that served the search; after build_index(L, T) succeeds,
\* searches on L report T.
C25_ReportsServingIndexType ==
    (last.op = "search" /\ ~last.result.raised /\ last.lib \in DOMAIN indexes) =>
        last.result.index_type = indexes[last.lib].type


-----------------------------------------------------------------------------
(* Further claims about one index (SpecIdx)                                   *)

\* the index is a kd-tree whose tree is the one build() makes of the working
\* set it holds now
KDTreeCurrent ==
    /\ ix.type = "kdtree"
    /\ ix.is_built
    /\ ~KDBuild(ix).raised
    /\ KDBuild(ix).index = ix

\* C24: kd-tree search is exact: a built kd-tree index returns the same top k
\* as a linear index over the same chunks (the same scores, rank by rank), and
\* so exactly k results whenever it holds at least k chunks.
C24_KDTreeExact ==
    (Searched /\ KDTreeCurrent /\ WellDimensioned) =>
        LET linear == LinearSearch(ix, out.query, out.k, "stable")
        IN  /\ ~out.result.raised
            /\ Len(out.result.chunks) = Len(linear.chunks)
            /\ Len(ix.chunks) >= out.k => Len(out.result.chunks) = out.k
            /\ \A r \in 1..Len(linear.chunks) :
                 ScoreEq(out.result.scores[r], linear.scores[r])


\* the points stored in a subtree
RECURSIVE PointsOf(_)
PointsOf(node) ==
    IF node = None THEN {}
    ELSE {node[1].point} \cup PointsOf(node[1].left) \cup PointsOf(node[1].right)

\* every node of the subtree at this depth splits its points on its axis:
\* smaller to the left, greater or equal to the right
RECURSIVE SplitsStrictly(_, _, _)
SplitsStrictly(node, depth, dimension) ==
    \/ node = None
    \/ LET n == node[1]
           axis == (depth % dimension) + 1
       IN  /\ \A p \in PointsOf(n.left)  : p[axis] < n.point[axis]
           /\ \A p \in PointsOf(n.right) : p[axis] >= n.point[axis]
           /\ SplitsStrictly(n.left, depth + 1, dimension)
           /\ SplitsStrictly(n.right, depth + 1, dimension)

\* C30: in every kd-tree build() produces, each node at depth d with axis
\* a = d mod dim has only points with a smaller a-coordinate in its left
\* subtree and only points with a greater or equal a-coordinate in its right
\* subtree, also when points share the a-coordinate.
C30_KDTreeSplitsStrictly ==
    (ix.type = "kdtree" /\ ix.tree # None) => SplitsStrictly(ix.tree, 0, ix.dimension)


-----------------------------------------------------------------------------
(* Claims about the demo service (SpecDemo)                                   *)

\* the run of this demo is over and its execution raised
RunRaised(d) == frame[d].pc = "done" /\ frame[d].raised

-----------------------------------------------------------------------------
(* Further claims about the two locks and the snapshot file (SpecRW)          *)

\* C27: in every store operation that takes both locks the store-wide lock is
\* acquired before the library's index lock and the index lock is released
\* first: a thread holding an index lock holds the store-wide lock, and no
\* thread waits for the store-wide lock while holding an index lock.
C27_LockOrder ==
    \A t \in Threads, l \in LibIds :
        /\ index_lock[l].owner = t => rw_lock.owner = t
        /\ pc[t] = "acquire_rw" => index_lock[l].owner # t

\* a thread holds both locks while the other waits for the store-wide lock
C27_Witness ==
    \E t, u \in Threads, l \in LibIds :
        /\ index_lock[l].owner = t
        /\ rw_lock.owner = t
        /\ pc[u] = "acquire_rw"

\* C28: the snapshot file is written only by a thread that holds the store
\* write lock, in a call that is not a read, while no other thread is inside
\* a store operation; what it writes is the entity graph of that moment (or a
\* cut-off write of it); no other step touches the file.
C28_SnapshotUnderWriteLock ==
    [][/\ \A t \in Threads :
            (pc[t] = "persist" /\ pc'[t] # "persist") =>
                /\ rw_lock.owner = t
                /\ frame[t].op \notin ReadOps
                /\ \A u \in Threads \ {t} : ~Inside(u)
                /\ snapshot' \in {data, snapshot, Truncated}
       /\ snapshot' # snapshot =>
            \E t \in Threads : pc[t] = "persist" /\ pc'[t] = "release_rw"]_vars

\* the file holds a snapshot written while the other thread waited for the
\* lock
C28_Witness ==
    \E t, u \in Threads :
        /\ pc[t] = "release_rw"
        /\ frame[t].persist = "written"
        /\ snapshot = data
        /\ snapshot # [l \in LibIds |-> ConcLibrary]
        /\ pc[u] = "acquire_rw"


-----------------------------------------------------------------------------
(* A further claim about the store (Spec)                                     *)

\* C29: update_document whose updates hold no 'chunks' leaves the library's
\* index object, working set and built structure as they were; update_document
\* whose updates hold 'chunks' (and whose document is found) empties the
\* working set, adds the chunks of all documents of the library again and
\* builds the index.
C29_UpdateDocumentIndexEffect ==
    [][\A d \in DocIds :
         /\ UpdateDocument("L1", d, FALSE, <<>>) => indexes' = indexes
         /\ \A chunks \in NewChunkLists(0, 1, StoreVectors) :
              (/\ UpdateDocument("L1", d, TRUE, chunks)
               /\ "L1" \in DOMAIN data
               /\ DocPos(data["L1"], d) # 0) =>
                  /\ indexes'["L1"].chunks = AllChunks(data'["L1"])
                  /\ ~last'.raised => indexes'["L1"].is_built
                  /\ \E planes \in SampledPlanes([indexes["L1"] EXCEPT
                                       !.chunks = AllChunks(data'["L1"])]) :
                       indexes'["L1"] =
                          build([indexes["L1"] EXCEPT !.chunks = AllChunks(data'["L1"])],
                                planes).index]_vars

\* a document of a library of two documents was updated and the library's
\* kd-tree holds the chunks of both
C29_Witness ==
    /\ last.op = "update_document"
    /\ last.ret = "document"
    /\ ~last.raised
    /\ Len(data["L1"].documents) = 2
    /\ indexes["L1"].type = "kdtree"
    /\ Len(indexes["L1"].chunks) = 2
    /\ indexes["L1"].chunks = AllChunks(data["L1"])

-----------------------------------------------------------------------------
(* Claims about the LSH index (SpecIdx)                                       *)

\* the index is an LSH index whose planes and hash tables are the ones build()
\* made of the working set it holds now
LSHCurrent ==
    /\ ix.type = "lsh"
    /\ ix.is_built
    /\ ix.chunks # <<>>
    /\ Len(ix.random_planes) = ix.num_hashes
    /\ ~LSHBuild(ix, ix.random_planes).raised
    /\ LSHBuild(ix, ix.random_planes).index = ix

\* the chunks of the working set whose embedding is the query, the query not
\* being the zero vector
QueriedChunks ==
    {i \in 1..Len(ix.chunks) :
        /\ ix.chunks[i].embedding = out.query
        /\ Dot(out.query, out.query) # 0}

\* the chunks of the working set that score as high as the query itself
TopScoring ==
    {i \in 1..Len(ix.chunks) :
        /\ Len(ix.chunks[i].embedding) = Len(out.query)
        /\ ScoreEq(CosineSimilarity(out.query, ix.chunks[i].embedding),
                   CosineSimilarity(out.query, out.query))}

\* C31 as stated: a search of a built LSH index with the embedding v* of one
\* of its chunks (v* not zero) returns that chunk among its results, whatever
\* num_hashes, num_buckets and hyperplanes the index was built with.
C31_OwnVectorReturned ==
    (Searched /\ LSHCurrent) =>
        \A i \in QueriedChunks :
            /\ ~out.result.raised
            /\ ix.chunks[i] \in Range(out.result.chunks)

\* C31, amended: such a search does not raise, every chunk it returns first
\* scores as high as v* itself, and the chunk is among the results whenever at
\* most k chunks of the working set score that high (with more, k of them are
\* returned and the chunk can be cut off by the others).
C31_OwnVectorReturnedUnlessCrowded ==
    (Searched /\ LSHCurrent) =>
        \A i \in QueriedChunks :
            /\ ~out.result.raised
            /\ Len(out.result.chunks) >= 1
            /\ ScoreEq(out.result.scores[1], CosineSimilarity(out.query, out.query))
            /\ \A r \in 1..Len(out.result.chunks) :
                  r <= Cardinality(TopScoring) =>
                      out.result.chunks[r].id \in {ix.chunks[j].id : j \in TopScoring}
            /\ Cardinality(TopScoring) <= out.k =>
                  ix.chunks[i] \in Range(out.result.chunks)

\* a search with k = 1 among three chunks returned the queried chunk, which
\* shares a bucket with a chunk of another direction
C31_Witness ==
    /\ Searched /\ LSHCurrent /\ out.k = 1
    /\ Len(ix.chunks) = 3
    /\ Cardinality(QueriedChunks) = 1
    /\ \A i \in QueriedChunks : out.result.chunks = <<ix.chunks[i]>>
    /\ \E j \in 1..Len(ix.chunks), p \in 1..ix.num_hashes :
          /\ j \notin TopScoring
          /\ HashVector(ix.chunks[j].embedding, ix.random_planes[p], ix.num_buckets)
               = HashVector(out.query, ix.random_planes[p], ix.num_buckets)


\* C35: for every index type, a search over a working set of chunks with
\* pairwise distinct ids returns pairwise distinct chunks, also when chunks
\* have identical embeddings: no chunk is returned twice, and a search that
\* returns as many chunks as the working set holds returns each of them.
C35_ResultsDistinct ==
    (Answered /\ ix.is_built) =>
        LET r == out.result
        IN  /\ \A i, j \in 1..Len(r.chunks) : i # j => r.chunks[i].id # r.chunks[j].id
            /\ Len(r.chunks) = Len(ix.chunks) => Range(ix.chunks) \subseteq Range(r.chunks)

-----------------------------------------------------------------------------
(* Claims about the locks of the store (SpecConcFair)                         *)

\* the lock is owned by the thread t
Owns(lock, t) == lock.owner = t /\ lock.count > 0

\* C32: every store operation releases every lock it acquired on every exit
\* path, also when index.search or index.build raises: a thread outside a
\* call owns neither the store lock nor the index lock, so once all calls have
\* returned or raised both locks are free, and every thread that has entered a
\* call leaves it in the end, none waiting for a lock forever.
C32_LocksReleased ==
    /\ [](\A t \in Threads :
            pc[t] = "idle" => ~Owns(rw_lock, t) /\ ~Owns(index_lock, t))
    /\ []((\A t \in Threads : pc[t] = "idle") => rw_lock = Free /\ index_lock = Free)
    /\ \A t \in Threads : (pc[t] # "idle") ~> (pc[t] = "idle")

\* an add_chunks_to_document whose index.build() raised is about to leave, its
\* index lock given back, while the other thread waits for the store lock to
\* search
C32_Witness ==
    \E t, u \in Threads :
        /\ pc[t] = "release_rw" /\ frame[t].op = "add_chunks_to_document"
        /\ frame[t].raised
        /\ Owns(rw_lock, t) /\ index_lock = Free
        /\ pc[u] = "acquire_rw" /\ frame[u].op = "search"

-----------------------------------------------------------------------------
(* Claims about a store with every mutating operation (SpecLib)               *)

\* how often x occurs in the sequence s
Count(s, x) == Cardinality({i \in 1..Len(s) : s[i] = x})

\* the two sequences hold the same elements, each as often
SameBag(s, t) ==
    /\ Len(s) = Len(t)
    /\ \A x \in Range(s) \cup Range(t) : Count(s, x) = Count(t, x)

\* C33: after any sequence of store operations, update_library with any
\* updatable field included, the chunks in the working set of every library's
\* index (their embeddings aligned with them) are, as a multiset, the chunks
\* of the library's documents.
C33_WorkingSetMirrorsDocuments ==
    \A l \in DOMAIN data \cap DOMAIN indexes :
        /\ SameBag(indexes[l].chunks, AllChunks(data[l]))
        /\ Embeddings(indexes[l]) =
             [i \in 1..Len(indexes[l].chunks) |-> indexes[l].chunks[i].embedding]


\* the operations of the store that change the entity graph or the indexes
MutatingOps ==
    {"create_library", "update_library", "delete_library", "create_document",
     "update_document", "delete_document", "add_chunks_to_document", "build_index"}

\* C36: with a persistence path and file writes that succeed, after every
\* mutating store operation, whether it returned or raised, the snapshot file
\* holds the serialization of the libraries now in memory.
C36_SnapshotCurrent ==
    (persistence_path /\ last.op \in MutatingOps) => snapshot = data


\* the step left the entity graph, every index and the snapshot file alone and
\* the call returned ret without raising
NoEffect(ret) ==
    /\ data' = data
    /\ indexes' = indexes
    /\ snapshot' = snapshot
    /\ last'.ret = ret
    /\ ~last'.raised

\* C38: a store operation addressed to a library id or a document id that
\* does not exist returns None (update_library, create_document,
\* update_document), False (delete_library, delete_document,
\* add_chunks_to_document, build_index) or an empty result (search), raises
\* nothing and leaves the entity graph, every index and the snapshot file
\* unchanged.
C38_MissingTargetNoEffect ==
    [][LET l == "L1"
           nolib == l \notin DOMAIN data
           NoDoc(d) == nolib \/ DocPos(data[l], d) = 0
       IN  /\ (nolib /\ \E field \in LibraryFields, value \in NewDocumentLists :
                           UpdateLibrary(l, field, value)) => NoEffect("None")
           /\ (nolib /\ DeleteLibrary(l)) => NoEffect("False")
           /\ (nolib /\ \E chunks \in NewChunkLists(0, 1, StoreVectors) :
                           CreateDocument(l, NewDocId, chunks)) => NoEffect("None")
           /\ (nolib /\ \E t \in IndexTypes, p \in StoreLSHParams \cup {<<0, 0>>} :
                           BuildIndex(l, t, p)) => NoEffect("False")
           /\ \A d \in DocIds :
                /\ (NoDoc(d) /\ \E w \in BOOLEAN,
                                   chunks \in NewChunkLists(0, 1, StoreVectors) :
                                     UpdateDocument(l, d, w, chunks)) => NoEffect("None")
                /\ (NoDoc(d) /\ DeleteDocument(l, d)) => NoEffect("False")
                /\ (NoDoc(d) /\ \E chunks \in NewChunkLists(1, 1, StoreVectors) :
                                   AddChunksToDocument(l, d, chunks)) => NoEffect("False")
           /\ (l \notin DOMAIN indexes
                 /\ \E q \in StoreQueries : Search(l, q, 1, "stable")) =>
                  /\ NoEffect("result")
                  /\ last'.result = Returned(<<>>, <<>>)]_vars

\* update_document named a document the library does not hold: the library
\* still has its one document, its index that document's chunk, and the file
\* the same content
C38_Witness ==
    /\ last.op = "update_document" /\ last.ret = "None" /\ ~last.raised
    /\ "L1" \in DOMAIN data
    /\ Len(data["L1"].documents) = 1
    /\ Len(AllChunks(data["L1"])) = 1
    /\ indexes["L1"].chunks = AllChunks(data["L1"])
    /\ snapshot = data

-----------------------------------------------------------------------------
(* Claims about the search structure of a library's index (Spec)              *)

\* the (chunk_index, point) pairs stored in a subtree
RECURSIVE EntriesOf(_)
EntriesOf(node) ==
    IF node = None THEN {}
    ELSE {<<node[1].chunk_index, node[1].point>>}
            \cup EntriesOf(node[1].left) \cup EntriesOf(node[1].right)

\* every kd-tree node names a position of the working set that holds the
\* node's point
TreeInStep(index) ==
    \A e \in EntriesOf(index.tree) :
        /\ e[1] \in 1..Len(index.chunks)
        /\ index.chunks[e[1]].embedding = e[2]

\* every bucket entry names a position of the working set whose embedding
\* hashes to that bucket
TablesInStep(index) ==
    \A j \in 1..Len(index.hash_tables) :
        \A b \in DOMAIN index.hash_tables[j] :
            \A i \in Range(index.hash_tables[j][b]) :
                /\ i \in 1..Len(index.chunks)
                /\ Len(index.chunks[i].embedding) = Len(index.random_planes[j])
                /\ HashVector(index.chunks[i].embedding, index.random_planes[j],
                              index.num_buckets) = b

\* the search structure holds nothing
StructureEmpty(index) ==
    /\ index.tree = None
    /\ \A j \in 1..Len(index.hash_tables) :
          \A b \in DOMAIN index.hash_tables[j] : index.hash_tables[j][b] = <<>>

\* C34: whenever a library's index is built, every chunk position stored in
\* its search structure (kd-tree nodes, LSH buckets) is a position of the
\* working set and denotes the chunk whose embedding was inserted there; a
\* built kdtree or lsh index with no chunks, as delete_document and
\* update_document can leave it, has an empty tree and empty hash tables and
\* answers every search with ([], []) without raising.
C34_StructureInStep ==
    \A l \in DOMAIN indexes :
        LET index == indexes[l]
        IN  index.is_built =>
              /\ index.type = "kdtree" => TreeInStep(index)
              /\ index.type = "lsh" => TablesInStep(index)
              /\ index.chunks = <<>> =>
                    /\ StructureEmpty(index)
                    /\ \A q \in StoreQueries, k \in StoreKs :
                          search(index, q, k, "stable") = Returned(<<>>, <<>>)


\* demos registered by a start call for which delete_demo has not been called
Registered == (Range(history) \cap DemoIds) \ removed

\* service s was built after demo d was registered
BuiltAfter(s, d) ==
    \E i, j \in 1..Len(history) : i < j /\ history[i] = d /\ history[j] = s

\* C39: a demo registered by start_cohere_demo or start_quick_demo stays in
\* the demo file until delete_demo is called for it, whatever the DemoService
\* objects sharing the file do in between, and list_all_demos and
\* get_demo_status of every service built after the registration report it.
C39_DemoStaysOnFile ==
    /\ Registered \subseteq DOMAIN snapshot
    /\ last.op = "list_all_demos" =>
          \A d \in Registered : BuiltAfter(last.service, d) => d \in last.demos
    /\ (last.op = "get_demo_status" /\ last.demo \in Registered
          /\ BuiltAfter(last.service, last.demo)) => ~last.raised

-----------------------------------------------------------------------------
(* Claims about reads beside writes (SpecStats)                               *)

\* C37: reads are isolated from concurrent writes: the total_documents and
\* total_chunks that get_library_stats returns are the counts of one state the
\* library had between the start and the end of the call, whatever
\* create_document, add_chunks_to_document and delete_document calls run
\* beside it.
C37_StatsOfOneState ==
    last.op = "get_library_stats" =>
        <<last.total_documents, last.total_chunks>> \in last.states
====
